---------------------------- MODULE Spec2Model ----------------------------
(* ShredX: the sanitization job driver (src/src/main.rs), the device      *)
(* erasers (src/src/devices), the sanitization orchestrator               *)
(* (src/src/sanitization.rs) and the certificate generator                *)
(* (src/src/certificate.rs).                                              *)
(*                                                                        *)
(* Sizes are counted in units of one mebibyte (Unit bytes); a byte value  *)
(* of a buffer is a number 0..255.                                        *)
EXTENDS Integers, Sequences, FiniteSets, TLC

VARIABLES
    confirm_erase,               \* advanced_options.confirm_erase
    drives,                      \* drive_table.drives, by drive path
    selected_algorithm,          \* HDDApp.selected_algorithm
    wipe_progress,               \* the one Arc<Mutex<WipingProgress>> of HDDApp
    sanitization_in_progress,    \* HDDApp.sanitization_in_progress
    sanitization_progress,       \* HDDApp.sanitization_progress
    current_sanitization_start,  \* HDDApp.current_sanitization_start is Some
    last_error_message,          \* HDDApp.last_error_message, by message kind
    certificates,                \* HDDApp.certificates
    threads,                     \* the worker threads spawned so far
    devices,                     \* the device behind each drive
    clicks,                      \* UI events handled so far
    call                         \* a direct call of a library entry point

vars == <<confirm_erase, drives, selected_algorithm, wipe_progress,
          sanitization_in_progress, sanitization_progress,
          current_sanitization_start, last_error_message, certificates,
          threads, devices, clicks, call>>

\* the fields of HDDApp the UI thread writes
uiVars == <<confirm_erase, drives, selected_algorithm,
            sanitization_in_progress, sanitization_progress,
            current_sanitization_start, last_error_message, certificates,
            clicks>>

\* everything but the direct call
appVars == <<uiVars, wipe_progress, threads, devices>>

-----------------------------------------------------------------------------
(* Bounds and units *)

\* worker threads spawned in one run
MaxThreads == 1

\* UI events (checkbox toggles, clicks of the erase button) in one run
MaxClicks == 4

Unit == 1024 * 1024

\* the drives the platform lists (get_system_drives), by drive letter, in
\* list order: the system drive and two data drives
DriveList == <<"C:", "D:", "E:">>

Drives == {DriveList[i] : i \in 1..Len(DriveList)}

\* DriveInfo.size parsed back to bytes, in units
UiSizes == {4}

\* metadata.len() of the device path, in units
DeviceSizes == {4}

\* one write of an overwrite loop, in units
ChunkUnits == 2

Min(a, b) == IF a < b THEN a ELSE b

-----------------------------------------------------------------------------
(* WipingAlgorithm and the pass tables of the job driver *)

WipingAlgorithm ==
    {"Zeros", "Ones", "Random", "TwoPass", "ThreePass", "SevenPass",
     "DoD522022M", "Gutmann", "NistClear", "QuickFormat", "FileSystemWipe",
     "AtaSecureErase", "NvmeSecureErase", "NvmeCryptoErase"}

\* the algorithms a request may carry in this model
RequestedAlgorithms == {"NistClear", "NvmeCryptoErase"}

\* main.rs 389-396: progress.total_passes = match algorithm_to_use
TotalPassesTable(a) ==
    CASE a = "DoD522022M" -> 3
      [] a = "Gutmann"    -> 35
      [] a = "SevenPass"  -> 7
      [] a = "ThreePass"  -> 3
      [] a = "TwoPass"    -> 2
      [] OTHER            -> 1

\* main.rs 1318-1325: passes_completed = match self.selected_algorithm
PassesCompletedTable(a) ==
    CASE a = "DoD522022M" -> 3
      [] a = "Gutmann"    -> 35
      [] a = "SevenPass"  -> 7
      [] a = "ThreePass"  -> 3
      [] a = "TwoPass"    -> 2
      [] OTHER            -> 1


-----------------------------------------------------------------------------
(* Certificate generator, src/src/certificate.rs *)

\* the values of advanced_options.eraser_method (ui/widgets.rs 436-443)
EraserMethods ==
    {"NIST SP 800-88 and DoD 5220.22-M", "NIST SP 800-88", "DoD 5220.22-M",
     "DoD 5220.22-M ECE", "Gutmann", "Random", "ATA Secure Erase",
     "Enhanced Secure Erase"}

\* str::contains on the strings a certificate can carry: the method strings
\* above and the Debug names of WipingAlgorithm
StrContains(s, sub) ==
    CASE sub = "NIST"  -> s \in {"NIST SP 800-88 and DoD 5220.22-M", "NIST SP 800-88"}
      [] sub = "DoD"   -> s \in {"NIST SP 800-88 and DoD 5220.22-M", "DoD 5220.22-M",
                                 "DoD 5220.22-M ECE", "DoD522022M"}
      [] sub = "Clear" -> s \in {"NistClear"}
      [] sub = "Purge" -> FALSE
      [] sub = "Secure Erase" -> s \in {"ATA Secure Erase", "Enhanced Secure Erase"}
      [] sub = "Crypto Erase" -> FALSE
      [] OTHER -> FALSE

\* determine_compliance with the two flags set whenever the standard is
\* named, whatever the outcome of the run
determine_compliance_named(sanitization_info) ==
    LET nistNamed == \/ StrContains(sanitization_info.method, "NIST")
                     \/ StrContains(sanitization_info.algorithm, "Clear")
                     \/ StrContains(sanitization_info.algorithm, "Purge")
        dodNamed  == \/ StrContains(sanitization_info.method, "DoD")
                     \/ sanitization_info.passes_completed >= 3
    IN [standards_met  |-> <<>>,
        nist_compliant |-> nistNamed,
        dod_compliant  |-> dodNamed,
        hipaa_compliant |-> sanitization_info.success,
        gdpr_compliant  |-> sanitization_info.success,
        security_level |->
            IF nistNamed /\ dodNamed THEN "High Security"
            ELSE IF nistNamed \/ dodNamed THEN "Medium Security"
            ELSE IF sanitization_info.success THEN "Basic Security"
            ELSE "Incomplete"]

\* certificate.rs 134-183
determine_compliance(sanitization_info) ==
    LET nistNamed == \/ StrContains(sanitization_info.method, "NIST")
                     \/ StrContains(sanitization_info.algorithm, "Clear")
                     \/ StrContains(sanitization_info.algorithm, "Purge")
        dodNamed  == \/ StrContains(sanitization_info.method, "DoD")
                     \/ sanitization_info.passes_completed >= 3
        nist_compliant == nistNamed /\ sanitization_info.success
        dod_compliant  == dodNamed /\ sanitization_info.success
        standards_met ==
            (IF nistNamed THEN <<"NIST SP 800-88">> ELSE <<>>)
            \o (IF dodNamed THEN <<"DoD 5220.22-M">> ELSE <<>>)
            \o (IF StrContains(sanitization_info.algorithm, "Secure Erase")
                THEN <<"ATA Secure Erase">> ELSE <<>>)
            \o (IF StrContains(sanitization_info.algorithm, "Crypto Erase")
                THEN <<"Cryptographic Erase">> ELSE <<>>)
    IN [standards_met  |-> standards_met,
        nist_compliant |-> nist_compliant,
        dod_compliant  |-> dod_compliant,
        hipaa_compliant |-> sanitization_info.success,
        gdpr_compliant  |-> sanitization_info.success,
        security_level |->
            IF nist_compliant /\ dod_compliant THEN "High Security"
            ELSE IF nist_compliant \/ dod_compliant THEN "Medium Security"
            ELSE IF sanitization_info.success THEN "Basic Security"
            ELSE "Incomplete"]

\* the f64 values of a run: two finite ones, NaN and the infinities
F64Values == {"0.0", "1.5", "NaN", "inf", "-inf"}

\* serde_json writes a finite f64 as its shortest decimal and NaN and the
\* infinities as null
JsonF64(x) == IF x \in {"NaN", "inf", "-inf"} THEN "null" ELSE x

\* serde_json::to_string of a SanitizationCertificate: every field, in
\* declaration order (certificate.rs 8-74)
Serialize(c) ==
    << c.id,
       << c.device_info.device_path, c.device_info.device_name,
          c.device_info.device_type, c.device_info.manufacturer,
          c.device_info.model, c.device_info.serial_number,
          c.device_info.capacity, c.device_info.sector_size,
          c.device_info.supports_secure_erase,
          c.device_info.supports_crypto_erase,
          c.device_info.encryption_status >>,
       << c.sanitization_info.method, c.sanitization_info.algorithm,
          c.sanitization_info.passes_completed,
          c.sanitization_info.total_bytes_processed,
          c.sanitization_info.start_time, c.sanitization_info.end_time,
          c.sanitization_info.duration_seconds,
          JsonF64(c.sanitization_info.average_speed_mbps),
          c.sanitization_info.success, c.sanitization_info.error_count >>,
       << c.compliance_info.standards_met, c.compliance_info.nist_compliant,
          c.compliance_info.dod_compliant, c.compliance_info.hipaa_compliant,
          c.compliance_info.gdpr_compliant, c.compliance_info.security_level >>,
       << c.verification_info.verification_performed,
          c.verification_info.verification_method,
          c.verification_info.verification_passed,
          c.verification_info.residual_data_found,
          c.verification_info.verification_details >>,
       c.timestamp,
       << c.user_info.username, c.user_info.user_id,
          c.user_info.organization, c.user_info.role >>,
       c.certificate_hash >>

\* SHA-256 of the serialized record, as an injective function of it
Sha256(json) == <<"sha256", json>>

\* certificate.rs 185-194
calculate_certificate_hash(certificate) ==
    LET temp_cert == [certificate EXCEPT !.certificate_hash = <<>>]
    IN Sha256(Serialize(temp_cert))

\* certificate.rs 92-132; id is Uuid::new_v4(), timestamp is Utc::now()
generate_certificate(device_info, sanitization_info, user_info, id, timestamp) ==
    LET certificate ==
            [id |-> id,
             device_info |-> device_info,
             sanitization_info |-> sanitization_info,
             compliance_info |-> determine_compliance(sanitization_info),
             verification_info |->
                 [verification_performed |-> TRUE,
                  verification_method |-> "Post-sanitization sector scan",
                  verification_passed |-> sanitization_info.success,
                  residual_data_found |-> FALSE,
                  verification_details |->
                      IF sanitization_info.success
                      THEN "No recoverable data detected after sanitization"
                      ELSE "Sanitization incomplete - verification could not be performed"],
             timestamp |-> timestamp,
             user_info |-> user_info,
             certificate_hash |-> <<>>]
    IN [certificate EXCEPT !.certificate_hash = calculate_certificate_hash(certificate)]


-----------------------------------------------------------------------------
(* Device erasers as the job driver uses them, src/src/devices *)

\* the eraser variants whose code is modelled
DeviceTypes == {"NVMe", "SDCard"}

\* nvme/mod.rs 535-543, sdcard/mod.rs 532-540
get_recommended_algorithms(devtype) ==
    IF devtype = "NVMe"
    THEN <<"NvmeSecureErase", "NvmeCryptoErase", "NistClear", "Random", "Zeros">>
    ELSE <<"Random", "Zeros", "QuickFormat", "FileSystemWipe", "TwoPass">>

SeqContains(seq, x) == \E i \in 1..Len(seq) : seq[i] = x

\* main.rs 374-379
algorithm_to_use(devtype, selected) ==
    LET recommended_algorithms == get_recommended_algorithms(devtype)
    IN IF SeqContains(recommended_algorithms, selected)
       THEN selected
       ELSE IF Len(recommended_algorithms) > 0
            THEN recommended_algorithms[1] ELSE "Random"

\* The method erase_device dispatches to: nvme/mod.rs 477-500,
\* sdcard/mod.rs 473-494
EraseMethod(devtype, algorithm, info) ==
    IF devtype = "NVMe"
    THEN CASE algorithm = "NvmeSecureErase" -> "nvme_secure_erase"
           [] algorithm = "NvmeCryptoErase" -> "nvme_crypto_erase"
           [] algorithm = "NistClear"       -> "nvme_write_zeroes"
           [] algorithm = "Random"          -> "single_pass_overwrite"
           [] algorithm = "Zeros"           -> "nvme_write_zeroes"
           [] algorithm = "Ones"            -> "overwrite_ones"
           [] OTHER ->
                IF info.supports_secure_erase THEN "nvme_secure_erase"
                ELSE IF info.supports_crypto_erase THEN "nvme_crypto_erase"
                ELSE "single_pass_overwrite"
    ELSE CASE algorithm = "Random"         -> "single_pass_random"
           [] algorithm = "Zeros"          -> "single_pass_zeros"
           [] algorithm = "QuickFormat"    -> "quick_format"
           [] algorithm = "FileSystemWipe" -> "filesystem_secure_delete"
           [] algorithm = "NistClear"      -> "single_pass_zeros"
           [] algorithm = "TwoPass"        -> "conservative_two_pass"
           [] algorithm = "Ones"           -> "overwrite_ones"
           [] OTHER ->
                IF info.supports_secure_erase THEN "sd_erase_command"
                ELSE "single_pass_random"

\* the methods that run an overwrite loop over the device, with their passes
OverwritePasses(method) ==
    CASE method \in {"nvme_write_zeroes", "single_pass_zeros"} -> <<"Zeros">>
      [] method \in {"single_pass_overwrite", "single_pass_random"} -> <<"Random">>
      [] method = "overwrite_ones" -> <<"Ones">>
      [] method = "conservative_two_pass" -> <<"Zeros", "Random">>
      [] OTHER -> <<>>

\* the methods that hand the erase to an external command
NativeMethods == {"nvme_secure_erase", "nvme_crypto_erase", "quick_format"}

\* the mutant of NativeSupported: the capability is not looked at
NativeSupported_unchecked(method, info) == TRUE

\* nvme/mod.rs 53-58 and 104-109: the capability the native method requires
NativeSupported(method, info) ==
    CASE method = "nvme_secure_erase" -> info.supports_secure_erase
      [] method = "nvme_crypto_erase" -> info.supports_crypto_erase
      [] OTHER -> TRUE


-----------------------------------------------------------------------------
(* The drive table and the progress tick of HDDApp, src/src/main.rs and   *)
(* src/src/ui/widgets.rs                                                  *)

\* DriveInfo.progress == 0.0, < 1.0 and >= 1.0 (widgets.rs 52-56)
ProgressZero(dr) == dr.bytes_total = 0 \/ dr.bytes_processed = 0

ProgressDone(dr) == dr.bytes_total > 0 /\ dr.bytes_processed >= dr.bytes_total

\* widgets.rs 40-47
start_processing(dr, total_bytes) ==
    [dr EXCEPT !.bytes_total = total_bytes, !.bytes_processed = 0, !.started = TRUE]

\* widgets.rs 49-56
update_progress(dr, bytes_processed) ==
    [dr EXCEPT !.bytes_processed = Min(bytes_processed, dr.bytes_total)]

\* main.rs 577: the simulated increment of one tick
SimIncrement == (1024 * 1024 * 2) \div Unit

\* main.rs 565-579
new_bytes_processed(dr, wp) ==
    IF wp.total_bytes > 0
    THEN IF wp.total_bytes >= dr.bytes_total
         THEN (wp.bytes_processed * dr.bytes_total) \div wp.total_bytes
         ELSE wp.bytes_processed
    ELSE Min(dr.bytes_processed + SimIncrement, dr.bytes_total)

RECURSIVE SumSeq(_)
SumSeq(seq) == IF seq = <<>> THEN 0 ELSE Head(seq) + SumSeq(Tail(seq))

\* main.rs 1293-1333: the certificate inputs of one completed drive
CompletionDeviceInfo(d) ==
    [device_path |-> d, device_name |-> d, device_type |-> "Fixed",
     manufacturer |-> "Unknown", model |-> "Unknown", serial_number |-> "N/A",
     capacity |-> 0, sector_size |-> 512, supports_secure_erase |-> FALSE,
     supports_crypto_erase |-> FALSE, encryption_status |-> "Unknown"]

CompletionSanitizationInfo(method, algorithm) ==
    [method |-> method,
     algorithm |-> algorithm,
     passes_completed |-> PassesCompletedTable(algorithm),
     total_bytes_processed |-> 0,
     start_time |-> 0, end_time |-> 0, duration_seconds |-> 0,
     average_speed_mbps |-> "0.0",
     success |-> TRUE,
     error_count |-> 0]

UnknownUser ==
    [username |-> "Unknown", user_id |-> "unknown",
     organization |-> "HDD Tool User", role |-> "User"]

\* advanced_options.eraser_method as constructed (widgets.rs 410)
DefaultEraserMethod == "NIST SP 800-88 and DoD 5220.22-M"

\* main.rs 1267-1374: one certificate per selected drive whose progress is
\* complete, appended in drive order
RECURSIVE generate_completion_certificates(_, _, _, _)
generate_completion_certificates(drs, certs, algorithm, i) ==
    IF i > Len(DriveList) THEN certs
    ELSE LET d == DriveList[i]
             next ==
                 IF drs[d].selected /\ ProgressDone(drs[d])
                 THEN Append(certs,
                        generate_certificate(
                            CompletionDeviceInfo(d),
                            CompletionSanitizationInfo(DefaultEraserMethod, algorithm),
                            UnknownUser, Len(certs) + 1, 0))
                 ELSE certs
         IN generate_completion_certificates(drs, next, algorithm, i + 1)

\* main.rs 522-617, as a function of the state it reads; the result holds
\* the fields it writes
simulate_sanitization_progress(drs, wp, app) ==
    LET started == [d \in Drives |->
                      IF drs[d].selected /\ ProgressZero(drs[d])
                      THEN start_processing(drs[d], drs[d].size)
                      ELSE drs[d]]
        active(d) == started[d].selected /\ started[d].started
                     /\ ~ProgressDone(started[d])
        updated == [d \in Drives |->
                      IF active(d)
                      THEN update_progress(started[d], new_bytes_processed(started[d], wp))
                      ELSE started[d]]
        any_in_progress == \E d \in Drives : active(d)
        all_completed == \A d \in Drives : active(d) => ProgressDone(updated[d])
        Total(d) == IF updated[d].selected THEN updated[d].bytes_total ELSE 0
        Processed(d) == IF updated[d].selected THEN updated[d].bytes_processed ELSE 0
        total_bytes_all_drives ==
            SumSeq([i \in 1..Len(DriveList) |-> Total(DriveList[i])])
        total_processed_all_drives ==
            SumSeq([i \in 1..Len(DriveList) |-> Processed(DriveList[i])])
        overall_percentage == (total_processed_all_drives * 100) \div total_bytes_all_drives
        progress ==
            IF total_bytes_all_drives > 0
            THEN [current_pass |->
                      IF wp.total_passes > 0 THEN wp.current_pass
                      ELSE IF overall_percentage < 33 THEN 1
                      ELSE IF overall_percentage < 66 THEN 2 ELSE 3,
                  total_passes |-> IF wp.total_passes > 0 THEN wp.total_passes ELSE 3,
                  bytes_processed |-> total_processed_all_drives,
                  total_bytes |-> total_bytes_all_drives]
            ELSE app.sanitization_progress
        complete == all_completed /\ any_in_progress
    IN [drives |-> updated,
        sanitization_progress |-> progress,
        sanitization_in_progress |->
            IF complete THEN FALSE ELSE app.sanitization_in_progress,
        last_error_message |->
            IF complete THEN "completed" ELSE app.last_error_message,
        certificates |->
            IF complete
            THEN generate_completion_certificates(updated, app.certificates,
                                                  app.selected_algorithm, 1)
            ELSE app.certificates,
        current_sanitization_start |->
            IF complete THEN FALSE ELSE app.current_sanitization_start]


-----------------------------------------------------------------------------
(* HDDApp: construction and the handlers of the UI thread *)

\* main.rs 90-99
InitialProgress ==
    [algorithm |-> "NistClear", current_pass |-> 0, total_passes |-> 1,
     bytes_processed |-> 0, total_bytes |-> 0]

NoCall == [op |-> "none"]

\* sanitization_progress: None
NoProgress ==
    [current_pass |-> 0, total_passes |-> 0, bytes_processed |-> 0, total_bytes |-> 0]

App ==
    [sanitization_progress |-> sanitization_progress,
     sanitization_in_progress |-> sanitization_in_progress,
     last_error_message |-> last_error_message,
     certificates |-> certificates,
     selected_algorithm |-> selected_algorithm,
     current_sanitization_start |-> current_sanitization_start]

\* the hardware a drive can stand on: an eraser variant, the size of the
\* device and the capabilities of its DeviceInfo
Hardware ==
    [devtype : {"NVMe"}, size_bytes : DeviceSizes,
     supports_secure_erase : BOOLEAN, supports_crypto_erase : BOOLEAN,
     content : {"data"}]
    \cup
    [devtype : {"SDCard"}, size_bytes : DeviceSizes,
     supports_secure_erase : {FALSE}, supports_crypto_erase : {FALSE},
     content : {"data"}]

SystemHardware ==
    [devtype |-> "NVMe", size_bytes |-> 4, supports_secure_erase |-> TRUE,
     supports_crypto_erase |-> TRUE, content |-> "data"]

\* HDDApp::new and refresh_disks (main.rs 89-190); the requested algorithm
\* is NistClear as constructed (main.rs 119) and is read as the request by
\* every job, so the run takes it as an input, like the hardware
Init ==
    /\ confirm_erase = FALSE
    /\ drives \in [Drives -> [selected : {FALSE}, size : UiSizes, bytes_total : {0},
                              bytes_processed : {0}, started : {FALSE}]]
    /\ selected_algorithm \in RequestedAlgorithms
    /\ wipe_progress = InitialProgress
    /\ sanitization_in_progress = FALSE
    /\ sanitization_progress = NoProgress
    /\ current_sanitization_start = FALSE
    /\ last_error_message = "none"
    /\ certificates = <<>>
    /\ threads = <<>>
    /\ devices \in {f \in [Drives -> Hardware] :
                        \A d \in Drives \ {"D:"} : f[d] = SystemHardware}
    /\ clicks = 0
    /\ call = NoCall

\* widgets.rs 464: the confirmation checkbox
ToggleConfirm ==
    /\ clicks < MaxClicks
    /\ clicks' = clicks + 1
    /\ confirm_erase' = ~confirm_erase
    /\ UNCHANGED <<drives, selected_algorithm, wipe_progress,
                   sanitization_in_progress, sanitization_progress,
                   current_sanitization_start, last_error_message,
                   certificates, threads, devices, call>>

\* widgets.rs 288-290, 380-382: a drive's checkbox
ToggleSelect(d) ==
    /\ clicks < MaxClicks
    /\ clicks' = clicks + 1
    /\ drives' = [drives EXCEPT ![d].selected = ~drives[d].selected]
    /\ UNCHANGED <<confirm_erase, selected_algorithm, wipe_progress,
                   sanitization_in_progress, sanitization_progress,
                   current_sanitization_start, last_error_message,
                   certificates, threads, devices, call>>

\* main.rs 360: the state of a worker thread as it is spawned
NewThread(d) ==
    [drive |-> d, pc |-> "analyze", analyzed |-> FALSE,
     requested |-> selected_algorithm, algorithm |-> "none",
     strategies |-> <<>>, pass |-> 0, written |-> 0,
     result |-> "running", verify |-> "none", executed |-> "none"]

\* the threads start_real_sanitization spawns, one per selected drive, in
\* drive order (main.rs 308-323)
RECURSIVE SpawnSelected(_, _, _)
SpawnSelected(drs, ths, i) ==
    IF i > Len(DriveList) THEN ths
    ELSE SpawnSelected(drs,
            IF drs[DriveList[i]].selected
            THEN Append(ths, NewThread(DriveList[i])) ELSE ths,
            i + 1)

\* handle_erase_request with the job marked as started before the
\* system-drive check
handle_erase_request_marked(max_threads) ==
    LET selected_drives == {d \in Drives : drives[d].selected}
    IN /\ clicks < MaxClicks
       /\ clicks' = clicks + 1
       /\ IF ~confirm_erase
          THEN /\ last_error_message' = "confirm"
               /\ UNCHANGED <<confirm_erase, drives, selected_algorithm,
                              wipe_progress, sanitization_in_progress,
                              sanitization_progress, current_sanitization_start,
                              certificates, threads, devices, call>>
          ELSE IF selected_drives = {}
          THEN /\ last_error_message' = "no_drives"
               /\ UNCHANGED <<confirm_erase, drives, selected_algorithm,
                              wipe_progress, sanitization_in_progress,
                              sanitization_progress, current_sanitization_start,
                              certificates, threads, devices, call>>
          ELSE IF "C:" \in selected_drives
          THEN /\ last_error_message' = "system_drive"
               /\ sanitization_in_progress' = TRUE
               /\ current_sanitization_start' = TRUE
               /\ UNCHANGED <<confirm_erase, drives, selected_algorithm,
                              wipe_progress, sanitization_progress,
                              certificates, threads, devices, call>>
          ELSE /\ Len(threads) + Cardinality(selected_drives) <= max_threads
               /\ LET processing == [d \in Drives |->
                                       IF drives[d].selected
                                       THEN start_processing(drives[d], drives[d].size)
                                       ELSE drives[d]]
                      app == [App EXCEPT !.sanitization_in_progress = TRUE,
                                         !.last_error_message = "started",
                                         !.current_sanitization_start = TRUE]
                      after == simulate_sanitization_progress(processing, wipe_progress, app)
                  IN /\ threads' = SpawnSelected(drives, threads, 1)
                     /\ drives' = after.drives
                     /\ sanitization_progress' = after.sanitization_progress
                     /\ sanitization_in_progress' = after.sanitization_in_progress
                     /\ last_error_message' = after.last_error_message
                     /\ certificates' = after.certificates
                     /\ current_sanitization_start' = after.current_sanitization_start
               /\ UNCHANGED <<confirm_erase, selected_algorithm, wipe_progress,
                              devices, call>>

\* main.rs 245-301 with start_real_sanitization (303-327), the UI side of
\* start_device_specific_sanitization (462-480) and the first progress tick
handle_erase_request_within(max_threads) ==
    LET selected_drives == {d \in Drives : drives[d].selected}
    IN /\ clicks < MaxClicks
       /\ clicks' = clicks + 1
       /\ IF ~confirm_erase
          THEN /\ last_error_message' = "confirm"
               /\ UNCHANGED <<confirm_erase, drives, selected_algorithm,
                              wipe_progress, sanitization_in_progress,
                              sanitization_progress, current_sanitization_start,
                              certificates, threads, devices, call>>
          ELSE IF selected_drives = {}
          THEN /\ last_error_message' = "no_drives"
               /\ UNCHANGED <<confirm_erase, drives, selected_algorithm,
                              wipe_progress, sanitization_in_progress,
                              sanitization_progress, current_sanitization_start,
                              certificates, threads, devices, call>>
          ELSE IF "C:" \in selected_drives
          THEN /\ last_error_message' = "system_drive"
               /\ UNCHANGED <<confirm_erase, drives, selected_algorithm,
                              wipe_progress, sanitization_in_progress,
                              sanitization_progress, current_sanitization_start,
                              certificates, threads, devices, call>>
          ELSE /\ Len(threads) + Cardinality(selected_drives) <= max_threads
               /\ LET processing == [d \in Drives |->
                                       IF drives[d].selected
                                       THEN start_processing(drives[d], drives[d].size)
                                       ELSE drives[d]]
                      app == [App EXCEPT !.sanitization_in_progress = TRUE,
                                         !.last_error_message = "started",
                                         !.current_sanitization_start = TRUE]
                      after == simulate_sanitization_progress(processing, wipe_progress, app)
                  IN /\ threads' = SpawnSelected(drives, threads, 1)
                     /\ drives' = after.drives
                     /\ sanitization_progress' = after.sanitization_progress
                     /\ sanitization_in_progress' = after.sanitization_in_progress
                     /\ last_error_message' = after.last_error_message
                     /\ certificates' = after.certificates
                     /\ current_sanitization_start' = after.current_sanitization_start
               /\ UNCHANGED <<confirm_erase, selected_algorithm, wipe_progress,
                              devices, call>>

handle_erase_request == handle_erase_request_within(MaxThreads)

\* main.rs 726-733: one frame of eframe::App::update while a drive is active
UpdateTick ==
    /\ \E d \in Drives : drives[d].started /\ ~ProgressDone(drives[d])
    /\ LET after == simulate_sanitization_progress(drives, wipe_progress, App)
       IN /\ drives' = after.drives
          /\ sanitization_progress' = after.sanitization_progress
          /\ sanitization_in_progress' = after.sanitization_in_progress
          /\ last_error_message' = after.last_error_message
          /\ certificates' = after.certificates
          /\ current_sanitization_start' = after.current_sanitization_start
    /\ UNCHANGED <<confirm_erase, selected_algorithm, wipe_progress, threads,
                   devices, clicks, call>>


-----------------------------------------------------------------------------
(* The worker thread of start_device_specific_sanitization, main.rs       *)
(* 360-460, one action per step that other threads can observe            *)

\* the DeviceInfo of the eraser analysis returned for the thread's drive
InfoOf(th) == devices[th.drive]

Fallback(th) == [th EXCEPT !.pc = "nist_open", !.pass = 0, !.written = 0]

SetContent(d, c) == [devices EXCEPT ![d].content = c]

\* main.rs 361-397: analyze_and_create, the choice of the algorithm and the
\* initialisation of the shared progress record; on Err the thread goes to
\* the purge of main.rs 440-457
WorkerAnalyze(t) ==
    LET th == threads[t]
        algo == algorithm_to_use(InfoOf(th).devtype, th.requested)
    IN /\ th.pc = "analyze"
       /\ \/ /\ threads' = [threads EXCEPT ![t] = Fallback(th)]
             /\ UNCHANGED wipe_progress
          \/ /\ threads' = [threads EXCEPT ![t] =
                   [th EXCEPT !.pc = "erase", !.analyzed = TRUE, !.algorithm = algo]]
             /\ wipe_progress' =
                   [wipe_progress EXCEPT !.algorithm = algo,
                                         !.bytes_processed = 0,
                                         !.total_bytes = InfoOf(th).size_bytes,
                                         !.current_pass = 0,
                                         !.total_passes = TotalPassesTable(algo)]
       /\ UNCHANGED <<uiVars, devices, call>>

\* the progress header a method writes as it starts (for example
\* nvme/mod.rs 47-51, sdcard/mod.rs 59-63 and 212-220)
MethodHeader(wp, method) ==
    IF method \in {"filesystem_secure_delete", "overwrite_ones"} THEN wp
    ELSE [wp EXCEPT !.current_pass = 1,
                    !.total_passes = IF method = "conservative_two_pass" THEN 2 ELSE 1]

\* main.rs 400 into erase_device: the dispatch and the start of the method
WorkerEraseDevice(t) ==
    LET th == threads[t]
        method == EraseMethod(InfoOf(th).devtype, th.algorithm, InfoOf(th))
        tried == [th EXCEPT !.strategies = Append(@, method)]
    IN /\ th.pc = "erase"
       /\ wipe_progress' = MethodHeader(wipe_progress, method)
       /\ threads' = [threads EXCEPT ![t] =
             IF method \in NativeMethods
             THEN IF NativeSupported(method, InfoOf(th))
                  THEN [tried EXCEPT !.pc = "native"]
                  ELSE Fallback(tried)
             ELSE IF OverwritePasses(method) # <<>>
                  THEN [tried EXCEPT !.pc = "writing", !.pass = 1, !.written = 0]
                  ELSE Fallback(tried)]
       /\ UNCHANGED <<uiVars, devices, call>>

\* the external command of a native method returns (nvme/mod.rs 68-86,
\* sdcard/mod.rs 164-191)
WorkerNative(t) ==
    LET th == threads[t]
        size == InfoOf(th).size_bytes
    IN /\ th.pc = "native"
       /\ \/ /\ threads' = [threads EXCEPT ![t] =
                   [th EXCEPT !.pc = "verify", !.result = "ok",
                              !.executed = th.strategies[Len(th.strategies)]]]
             /\ devices' = SetContent(th.drive, "unknown")
             /\ wipe_progress' =
                   [wipe_progress EXCEPT !.bytes_processed = size,
                                         !.total_bytes = size]
          \/ /\ threads' = [threads EXCEPT ![t] = Fallback(th)]
             /\ UNCHANGED <<devices, wipe_progress>>
       /\ UNCHANGED <<uiVars, call>>

\* one write of an eraser's overwrite loop with its progress update
\* (nvme/mod.rs 353-404, sdcard/mod.rs 346-402); the open, a write or the
\* final sync can fail, which ends erase_device with Err
WorkerWrite(t) ==
    LET th == threads[t]
        size == InfoOf(th).size_bytes
        method == th.strategies[Len(th.strategies)]
        passes == OverwritePasses(method)
        written == th.written + Min(ChunkUnits, size - th.written)
        progressed == [wipe_progress EXCEPT !.bytes_processed = written,
                                            !.total_bytes = size]
    IN /\ th.pc = "writing"
       /\ \/ /\ written < size
             /\ threads' = [threads EXCEPT ![t] = [th EXCEPT !.written = written]]
             /\ devices' = SetContent(th.drive, "partial")
             /\ wipe_progress' = progressed
          \/ /\ written >= size
             /\ th.pass < Len(passes)
             /\ threads' = [threads EXCEPT ![t] =
                   [th EXCEPT !.pass = th.pass + 1, !.written = 0]]
             /\ devices' = SetContent(th.drive, passes[th.pass])
             /\ wipe_progress' = [progressed EXCEPT !.current_pass = th.pass + 1,
                                                    !.total_passes = Len(passes)]
          \/ /\ written >= size
             /\ th.pass = Len(passes)
             /\ threads' = [threads EXCEPT ![t] =
                   [th EXCEPT !.pc = "verify", !.written = written,
                              !.result = "ok", !.executed = method]]
             /\ devices' = SetContent(th.drive, passes[th.pass])
             /\ wipe_progress' = progressed
          \/ /\ threads' = [threads EXCEPT ![t] = Fallback(th)]
             /\ UNCHANGED <<devices, wipe_progress>>
       /\ UNCHANGED <<uiVars, call>>

\* verify_erasure of the NVMe and SD erasers (nvme/mod.rs 503-533,
\* sdcard/mod.rs 497-530): true exactly when the sample holds no non-zero
\* byte; what a native command left behind is not known
VerifyOutcomes(content) ==
    CASE content = "Zeros" -> {"true", "err"}
      [] content = "unknown" -> {"true", "false", "err"}
      [] OTHER -> {"false", "err"}

\* main.rs 405-409: the result is printed and dropped
WorkerVerify(t) ==
    LET th == threads[t]
    IN /\ th.pc = "verify"
       /\ \E v \in VerifyOutcomes(InfoOf(th).content) :
            threads' = [threads EXCEPT ![t] = [th EXCEPT !.pc = "done", !.verify = v]]
       /\ UNCHANGED <<uiVars, wipe_progress, devices, call>>

-----------------------------------------------------------------------------
(* The fallback of the worker: DataSanitizer::nist_purge_entire_disk,     *)
(* sanitization.rs 149-262, with the callback of main.rs 418-427          *)

\* sanitization.rs 201-205
purge_passes == <<"Random", "Ones", "Random">>

Failed(th) == [th EXCEPT !.pc = "done", !.result = "failed"]

\* main.rs 418-427: the callback copies a SanitizationProgress into the
\* shared record
Callback(wp, pass, total, bytes, size) ==
    [wp EXCEPT !.current_pass = pass, !.total_passes = total,
               !.bytes_processed = bytes, !.total_bytes = size]

\* sanitization.rs 160-220: open the device; when it cannot be opened, the
\* file-level sanitization takes over; otherwise read the size and announce
\* pass 1
WorkerNistOpen(t) ==
    LET th == threads[t]
        tried == [th EXCEPT !.strategies = Append(@, "nist_purge_entire_disk")]
    IN /\ th.pc = "nist_open"
       /\ \/ /\ threads' = [threads EXCEPT ![t] =
                   [tried EXCEPT !.pc = "file_level",
                        !.strategies = Append(@, "sanitize_files_and_free_space")]]
             /\ UNCHANGED wipe_progress
          \/ /\ threads' = [threads EXCEPT ![t] = Failed(tried)]
             /\ UNCHANGED wipe_progress
          \/ /\ threads' = [threads EXCEPT ![t] =
                   [tried EXCEPT !.pc = "nist_writing", !.pass = 1]]
             /\ wipe_progress' =
                   Callback(wipe_progress, 1, 3, 0, InfoOf(th).size_bytes)
       /\ UNCHANGED <<uiVars, devices, call>>

\* overwrite_entire_device, sanitization.rs 825-912: the writes of one pass;
\* the callback runs when the pass has written the whole device
\* (sanitization.rs 889-903)
WorkerNistWrite(t) ==
    LET th == threads[t]
        size == InfoOf(th).size_bytes
        total == IF th.pass = 4 THEN 4 ELSE 3
        pattern == Append(purge_passes, "Random")[th.pass]
    IN /\ th.pc = "nist_writing"
       /\ \/ /\ threads' = [threads EXCEPT ![t] = [th EXCEPT !.pc = "nist_pass_end"]]
             /\ devices' = SetContent(th.drive, pattern)
             /\ wipe_progress' = Callback(wipe_progress, th.pass, total, size, size)
          \/ /\ threads' = [threads EXCEPT ![t] = Failed(th)]
             /\ devices' = SetContent(th.drive, "partial")
             /\ UNCHANGED wipe_progress
       /\ UNCHANGED <<uiVars, call>>

\* sanitization.rs 906-911 and 207-231: the final sync of a pass, then the
\* next pass is announced or the verification starts
WorkerNistPassEnd(t) ==
    LET th == threads[t]
    IN /\ th.pc = "nist_pass_end"
       /\ \/ /\ th.pass < 3
             /\ threads' = [threads EXCEPT ![t] =
                   [th EXCEPT !.pc = "nist_writing", !.pass = th.pass + 1]]
             /\ wipe_progress' =
                   Callback(wipe_progress, th.pass + 1, 3, 0, InfoOf(th).size_bytes)
          \/ /\ th.pass = 3
             /\ threads' = [threads EXCEPT ![t] = [th EXCEPT !.pc = "nist_verify"]]
             /\ UNCHANGED wipe_progress
          \/ /\ th.pass = 4
             /\ threads' = [threads EXCEPT ![t] = [th EXCEPT !.pc = "nist_report"]]
             /\ UNCHANGED wipe_progress
          \/ /\ threads' = [threads EXCEPT ![t] = Failed(th)]
             /\ UNCHANGED wipe_progress
       /\ UNCHANGED <<uiVars, devices, call>>

\* sanitization.rs 233-253: the sampled verification; false starts a fourth
\* pass, which is not verified again
WorkerNistVerify(t) ==
    LET th == threads[t]
    IN /\ th.pc = "nist_verify"
       /\ \/ threads' = [threads EXCEPT ![t] =
                [th EXCEPT !.pc = "nist_report", !.verify = "true"]]
          \/ threads' = [threads EXCEPT ![t] =
                [th EXCEPT !.pc = "nist_writing", !.verify = "false", !.pass = 4]]
          \/ threads' = [threads EXCEPT ![t] = Failed([th EXCEPT !.verify = "err"])]
       /\ UNCHANGED <<uiVars, wipe_progress, devices, call>>

\* sanitization.rs 255-261: the compliance report is written, or its I/O
\* error is returned
WorkerNistReport(t) ==
    LET th == threads[t]
    IN /\ th.pc = "nist_report"
       /\ \/ threads' = [threads EXCEPT ![t] =
                [th EXCEPT !.pc = "done", !.result = "ok",
                           !.executed = "nist_purge_entire_disk"]]
          \/ threads' = [threads EXCEPT ![t] = Failed(th)]
       /\ UNCHANGED <<uiVars, wipe_progress, devices, call>>

\* sanitize_files_and_free_space, sanitization.rs 277-320: an error, or the
\* run whose last callback is that of the third free-space pass
WorkerFileLevel(t) ==
    LET th == threads[t]
    IN /\ th.pc = "file_level"
       /\ \/ /\ threads' = [threads EXCEPT ![t] =
                   [th EXCEPT !.pc = "done", !.result = "ok",
                              !.executed = "sanitize_files_and_free_space"]]
             /\ devices' = SetContent(th.drive, "files")
             /\ wipe_progress' = Callback(wipe_progress, 3, 3, 0, 0)
          \/ /\ threads' = [threads EXCEPT ![t] = Failed(th)]
             /\ UNCHANGED <<devices, wipe_progress>>
       /\ UNCHANGED <<uiVars, call>>

Next ==
    \/ ToggleConfirm
    \/ \E d \in Drives : ToggleSelect(d)
    \/ handle_erase_request
    \/ UpdateTick
    \/ \E t \in 1..Len(threads) : WorkerAnalyze(t)
    \/ \E t \in 1..Len(threads) : WorkerEraseDevice(t)
    \/ \E t \in 1..Len(threads) : WorkerNative(t)
    \/ \E t \in 1..Len(threads) : WorkerWrite(t)
    \/ \E t \in 1..Len(threads) : WorkerVerify(t)
    \/ \E t \in 1..Len(threads) : WorkerNistOpen(t)
    \/ \E t \in 1..Len(threads) : WorkerNistWrite(t)
    \/ \E t \in 1..Len(threads) : WorkerNistPassEnd(t)
    \/ \E t \in 1..Len(threads) : WorkerNistVerify(t)
    \/ \E t \in 1..Len(threads) : WorkerNistReport(t)
    \/ \E t \in 1..Len(threads) : WorkerFileLevel(t)

Spec == Init /\ [][Next]_vars

-----------------------------------------------------------------------------
(* Properties of the job driver, checked under Spec *)

CertificatesOf(d) ==
    {i \in 1..Len(certificates) : certificates[i].device_info.device_path = d}

ThreadsOf(d) == {t \in 1..Len(threads) : threads[t].drive = d}

\* the certificates the step appends
NewCertificates == (Len(certificates) + 1)..Len(certificates')

\* C1: a certificate with sanitization_info.success = TRUE exists for a drive
\* only when a worker of that drive has finished with result ok
C1_SuccessOnlyAfterWorkerSuccess ==
    \A i \in 1..Len(certificates) :
        certificates[i].sanitization_info.success =>
            \E t \in ThreadsOf(certificates[i].device_info.device_path) :
                threads[t].pc = "done" /\ threads[t].result = "ok"

\* C2: a certificate appended after the drive's verify_erasure returned false
\* or an error has verification_passed = FALSE
C2_FailedVerificationRecorded ==
    [][\A i \in NewCertificates :
         \A t \in ThreadsOf(certificates'[i].device_info.device_path) :
             threads[t].verify \in {"false", "err"} =>
                 ~certificates'[i].verification_info.verification_passed]_vars

\* C3: a certificate is appended for a drive only when every worker of the
\* drive has left the erase and verification phases
C3_CertificateAfterLastPhase ==
    [][\A i \in NewCertificates :
         LET d == certificates'[i].device_info.device_path
         IN /\ ThreadsOf(d) # {}
            /\ \A t \in ThreadsOf(d) : threads[t].pc = "done"]_vars

\* the methods erase_device runs for the algorithms the NVMe eraser
\* recommends after NvmeCryptoErase
NextRecommendedMethods ==
    {EraseMethod("NVMe", get_recommended_algorithms("NVMe")[k],
                 [supports_secure_erase |-> FALSE, supports_crypto_erase |-> FALSE])
        : k \in 3..Len(get_recommended_algorithms("NVMe"))}

CryptoEraseUnsupportedJob(t) ==
    /\ threads[t].requested = "NvmeCryptoErase"
    /\ devices[threads[t].drive].devtype = "NVMe"
    /\ ~devices[threads[t].drive].supports_crypto_erase
    /\ threads[t].analyzed

C7_AtMostOneFallback ==
    \A t \in 1..Len(threads) : Len(threads[t].strategies) <= 2

-----------------------------------------------------------------------------
(* Direct calls of library entry points: the application stays as          *)
(* constructed and `call` holds the arguments and the result of the call   *)

InitLibrary ==
    /\ Init
    /\ selected_algorithm = "NistClear"
    /\ devices = [d \in Drives |-> SystemHardware]

-----------------------------------------------------------------------------
(* DataSanitizer::generate_pattern_buffer, sanitization.rs 750-775 *)

\* longest buffer requested
MaxLen == 3

\* the byte values buffers are built from: 0x00, 0x55, 0xAA, 0xFF
Bytes == {0, 85, 170, 255}

\* SanitizationPattern, sanitization.rs 20-27; byte is the u8 of Custom
SanitizationPattern ==
    [tag : {"Zeros", "Ones", "Random", "DoD5220"}, byte : {0}]
    \cup [tag : {"Custom"}, byte : Bytes]

\* the mutant of generate_pattern_buffer: the DoD5220 bytes swapped
generate_pattern_buffer_swapped(pattern, size, rng) ==
    [i \in 1..size |->
        CASE pattern.tag = "Zeros"   -> 0
          [] pattern.tag = "Ones"    -> 255
          [] pattern.tag = "Random"  -> rng[i]
          [] pattern.tag = "Custom"  -> pattern.byte
          [] pattern.tag = "DoD5220" -> IF (i - 1) % 2 = 0 THEN 170 ELSE 85]

\* sanitization.rs 750-775; rng is what thread_rng fills a buffer of this
\* size with; index i of the Vec is element i + 1 of the sequence
generate_pattern_buffer(pattern, size, rng) ==
    [i \in 1..size |->
        CASE pattern.tag = "Zeros"   -> 0
          [] pattern.tag = "Ones"    -> 255
          [] pattern.tag = "Random"  -> rng[i]
          [] pattern.tag = "Custom"  -> pattern.byte
          [] pattern.tag = "DoD5220" -> IF (i - 1) % 2 = 0 THEN 85 ELSE 170]

CallGeneratePatternBuffer ==
    /\ \E pattern \in SanitizationPattern : \E size \in 0..MaxLen :
         \E rng \in [1..size -> Bytes] :
            call' = [op |-> "generate_pattern_buffer", pattern |-> pattern,
                     size |-> size,
                     buffer |-> generate_pattern_buffer(pattern, size, rng)]
    /\ UNCHANGED appVars

NextPattern == CallGeneratePatternBuffer

SpecPattern == InitLibrary /\ [][NextPattern]_vars

\* C10: generate_pattern_buffer returns exactly size bytes, all 0x00 for
\* Zeros, all 0xFF for Ones, all b for Custom(b), and for DoD5220 0x55 at
\* every even index and 0xAA at every odd index
C10_PatternBuffer ==
    call.op = "generate_pattern_buffer" =>
        /\ Len(call.buffer) = call.size
        /\ DOMAIN call.buffer = 1..call.size
        /\ call.pattern.tag = "Zeros" => \A i \in 1..call.size : call.buffer[i] = 0
        /\ call.pattern.tag = "Ones" => \A i \in 1..call.size : call.buffer[i] = 255
        /\ call.pattern.tag = "Custom" =>
               \A i \in 1..call.size : call.buffer[i] = call.pattern.byte
        /\ call.pattern.tag = "DoD5220" =>
               \A i \in 0..(call.size - 1) :
                   call.buffer[i + 1] = IF i % 2 = 0 THEN 85 ELSE 170

C10_Witness ==
    /\ call.op = "generate_pattern_buffer"
    /\ call.pattern.tag = "DoD5220"
    /\ call.size >= 2
    /\ call.buffer[1] = 85 /\ call.buffer[2] = 170

-----------------------------------------------------------------------------
(* Direct calls of NvmeEraser, src/src/devices/nvme/mod.rs *)

NvmeInfos ==
    [size_bytes : DeviceSizes, supports_secure_erase : BOOLEAN,
     supports_crypto_erase : BOOLEAN]

\* what the outside answers: the exit of the nvme format command
\* (nvme/mod.rs 273-310) and the result of the overwrite's I/O
NvmeEnvironments ==
    [format : {"success", "failure", "not_found"}, io : {"Ok", "Err"}]

\* execute_nvme_format_command, nvme/mod.rs 273-310: the command it runs
\* and its result
execute_nvme_format_command(crypto_erase, env) ==
    [command |-> [program |-> "nvme format",
                  ses |-> IF crypto_erase THEN "2" ELSE "1"],
     result |-> IF env.format = "success" THEN "Ok" ELSE "Err"]

\* a method of the NVMe eraser, run to its end: the commands it invoked and
\* the result it returned (nvme/mod.rs 39-87, 90-134, 137-199, 251-270)
NvmeMethodRun(method, info, env) ==
    IF method \in {"nvme_secure_erase", "nvme_crypto_erase"}
    THEN IF ~NativeSupported(method, info)
         THEN [result |-> "Unsupported", commands |-> <<>>]
         ELSE LET format == execute_nvme_format_command(method = "nvme_crypto_erase", env)
              IN [result |-> format.result, commands |-> <<format.command>>]
    ELSE [result |-> env.io,
          commands |-> <<[program |-> "overwrite", passes |-> OverwritePasses(method)]>>]

\* NvmeEraser::erase_device, nvme/mod.rs 469-501
NvmeEraseDevice(algorithm, info, env) ==
    NvmeMethodRun(EraseMethod("NVMe", algorithm, info), info, env)

CallNvmeEraseDevice ==
    /\ \E algorithm \in WipingAlgorithm : \E info \in NvmeInfos :
         \E env \in NvmeEnvironments :
            LET run == NvmeEraseDevice(algorithm, info, env)
            IN call' = [op |-> "erase_device", algorithm |-> algorithm,
                        device_info |-> info, result |-> run.result,
                        commands |-> run.commands]
    /\ UNCHANGED appVars

CallNvmeSecureErase ==
    /\ \E info \in NvmeInfos : \E env \in NvmeEnvironments :
            LET run == NvmeMethodRun("nvme_secure_erase", info, env)
            IN call' = [op |-> "nvme_secure_erase", algorithm |-> "NvmeSecureErase",
                        device_info |-> info, result |-> run.result,
                        commands |-> run.commands]
    /\ UNCHANGED appVars

NextNvme == CallNvmeEraseDevice \/ CallNvmeSecureErase

SpecNvme == InitLibrary /\ [][NextNvme]_vars

NvmeCall == call.op \in {"erase_device", "nvme_secure_erase"}

SecureEraseFormat == [program |-> "nvme format", ses |-> "1"]

CryptoEraseFormat == [program |-> "nvme format", ses |-> "2"]

\* the algorithms erase_device names in its match (nvme/mod.rs 477-486)
NvmeExplicitAlgorithms ==
    {"NvmeSecureErase", "NvmeCryptoErase", "NistClear", "Random", "Zeros", "Ones"}

\* C4, as the code has it: with supports_secure_erase false the secure-erase
\* format command is never invoked; nvme_secure_erase, called directly or by
\* erase_device for NvmeSecureErase, returns Unsupported and invokes nothing;
\* for an algorithm it does not name erase_device runs the crypto erase when
\* that is supported and the single random overwrite otherwise
C4_NoSecureEraseWhenUnsupported ==
    (NvmeCall /\ ~call.device_info.supports_secure_erase) =>
        /\ \A k \in 1..Len(call.commands) : call.commands[k] # SecureEraseFormat
        /\ call.algorithm = "NvmeSecureErase" =>
               call.result = "Unsupported" /\ call.commands = <<>>
        /\ (call.op = "erase_device" /\ call.algorithm \notin NvmeExplicitAlgorithms) =>
               call.commands =
                   IF call.device_info.supports_crypto_erase
                   THEN <<CryptoEraseFormat>>
                   ELSE <<[program |-> "overwrite", passes |-> <<"Random">>]>>

C4_Witness ==
    /\ call.op = "nvme_secure_erase"
    /\ ~call.device_info.supports_secure_erase
    /\ call.result = "Unsupported"

\* the algorithms for which erase_device takes the native secure erase when
\* the device supports it
SecureEraseAlgorithms ==
    {a \in WipingAlgorithm :
        EraseMethod("NVMe", a, [supports_secure_erase |-> TRUE,
                                supports_crypto_erase |-> TRUE]) = "nvme_secure_erase"}

\* C4, as stated: with supports_secure_erase false, erase_device executes the
\* overwrite fallback where it would have run the native secure erase
C4_OverwriteFallbackInstead ==
    (call.op = "erase_device" /\ ~call.device_info.supports_secure_erase
        /\ call.algorithm \in SecureEraseAlgorithms) =>
        /\ Len(call.commands) = 1
        /\ call.commands[1].program = "overwrite"

-----------------------------------------------------------------------------
(* Direct calls of CertificateGenerator, src/src/certificate.rs *)

\* certificates generated in one run
MaxIds == 2

\* the SanitizationInfo values handed to generate_certificate
SanitizationInfos ==
    {[CompletionSanitizationInfo(m, a) EXCEPT !.success = ok,
                                             !.average_speed_mbps = v] :
        m \in {"NIST SP 800-88", "Random"}, a \in {"NistClear", "Gutmann"},
        ok \in BOOLEAN, v \in F64Values}

\* a certificate with the value of one field other than certificate_hash
\* changed
Tamperings(c) ==
    {[c EXCEPT !.id = @ + 1], [c EXCEPT !.timestamp = @ + 1],
     [c EXCEPT !.compliance_info.standards_met = Append(@, "tampered")]}
    \cup {[c EXCEPT !.device_info[f] = "tampered"] :
            f \in {"device_path", "device_name", "device_type", "manufacturer", "model", "serial_number", "encryption_status"}}
    \cup {[c EXCEPT !.sanitization_info[f] = "tampered"] :
            f \in {"method", "algorithm"}}
    \cup {[c EXCEPT !.compliance_info[f] = "tampered"] :
            f \in {"security_level"}}
    \cup {[c EXCEPT !.verification_info[f] = "tampered"] :
            f \in {"verification_method", "verification_details"}}
    \cup {[c EXCEPT !.user_info[f] = "tampered"] :
            f \in {"username", "user_id", "organization", "role"}}
    \cup {[c EXCEPT !.device_info[f] = @ + 1] :
            f \in {"capacity", "sector_size"}}
    \cup {[c EXCEPT !.sanitization_info[f] = @ + 1] :
            f \in {"passes_completed", "total_bytes_processed", "start_time", "end_time", "duration_seconds", "error_count"}}
    \cup {[c EXCEPT !.device_info[f] = ~@] :
            f \in {"supports_secure_erase", "supports_crypto_erase"}}
    \cup {[c EXCEPT !.sanitization_info[f] = ~@] :
            f \in {"success"}}
    \cup {[c EXCEPT !.compliance_info[f] = ~@] :
            f \in {"nist_compliant", "dod_compliant", "hipaa_compliant", "gdpr_compliant"}}
    \cup {[c EXCEPT !.verification_info[f] = ~@] :
            f \in {"verification_performed", "verification_passed", "residual_data_found"}}
    \cup {[c EXCEPT !.sanitization_info.average_speed_mbps = v] :
            v \in F64Values \ {c.sanitization_info.average_speed_mbps}}

CallGenerateCertificate ==
    /\ \E d \in Drives : \E info \in SanitizationInfos : \E id \in 1..MaxIds :
         LET certificate == generate_certificate(CompletionDeviceInfo(d), info,
                                                 UnknownUser, id, 0)
         IN call' = [op |-> "generate_certificate", certificate |-> certificate,
                     original |-> certificate]
    /\ UNCHANGED appVars

CallTamper ==
    /\ call.op = "generate_certificate"
    /\ \E tampered \in Tamperings(call.certificate) :
         call' = [op |-> "tamper", certificate |-> tampered,
                  original |-> call.certificate]
    /\ UNCHANGED appVars

NextCert == CallGenerateCertificate \/ CallTamper

SpecCert == InitLibrary /\ [][NextCert]_vars

-----------------------------------------------------------------------------
(* Direct calls of DataSanitizer and of the public sanitize_device_with_size, *)
(* src/src/sanitization.rs: the patterns of a method and the loop over them   *)

\* SanitizationMethod, sanitization.rs 11-18
SanitizationMethod ==
    {"Clear", "Purge", "SecureErase", "EnhancedSecureErase", "ComprehensiveClean"}

Pattern(tag) == [tag |-> tag, byte |-> 0]

Custom(byte) == [tag |-> "Custom", byte |-> byte]

\* sanitization.rs 94-107; 0x55 and 0xAA
purge_patterns == <<Pattern("Random"), Custom(85), Custom(170)>>

\* sanitization.rs 110-127; 0x55, 0xAA, 0x92, 0x49, 0x24
enhanced_purge_patterns ==
    <<Pattern("Random"), Custom(85), Custom(170), Custom(146), Custom(73),
      Custom(36), Pattern("Random")>>

\* sanitization.rs 201-205, as patterns
nist_purge_patterns == [k \in 1..Len(purge_passes) |-> Pattern(purge_passes[k])]

\* sanitization.rs 1166-1190: the public sanitize_device_with_size
method_patterns(method) ==
    CASE method = "Clear" -> <<Pattern("Zeros")>>
      [] method = "Purge" -> <<Pattern("Random"), Pattern("Ones"), Pattern("Zeros")>>
      [] method \in {"SecureErase", "EnhancedSecureErase"} -> <<Pattern("Random")>>
      [] method = "ComprehensiveClean" ->
            <<Pattern("Random"), Pattern("DoD5220"), Pattern("Zeros")>>

\* the entry points with the patterns each hands to the pass loop
\* (sanitization.rs 84-146, 149-205, 1166-1190)
SanitizerEntries ==
    {[op |-> "clear", method |-> "Clear", patterns |-> <<p>>] :
        p \in SanitizationPattern}
    \cup {[op |-> "purge", method |-> "Purge", patterns |-> purge_patterns],
          [op |-> "enhanced_purge", method |-> "Purge",
           patterns |-> enhanced_purge_patterns],
          [op |-> "comprehensive_clean", method |-> "ComprehensiveClean",
           patterns |-> purge_patterns],
          [op |-> "nist_purge_entire_disk", method |-> "Purge",
           patterns |-> nist_purge_patterns]}
    \cup {[op |-> "sanitize_device_with_size", method |-> m,
           patterns |-> method_patterns(m)] : m \in SanitizationMethod}

SanitizerOps == {e.op : e \in SanitizerEntries}

\* the call enters the entry point
CallSanitizer ==
    /\ \E e \in SanitizerEntries :
         call' = [op |-> e.op, method |-> e.method, patterns |-> e.patterns,
                  done |-> <<>>, result |-> "running", verify |-> "none",
                  path |-> "device", report |-> "none"]
    /\ UNCHANGED appVars

\* get_device_size or the open of the device fails (sanitization.rs 533,
\* 555-558); nist_purge_entire_disk then runs the file-level sanitization
\* with its own three passes (sanitization.rs 170-186)
SanitizerOpenFails ==
    /\ call.op \in SanitizerOps /\ call.result = "running" /\ call.done = <<>>
    /\ \/ call' = [call EXCEPT !.result = "Err"]
       \/ /\ call.op = "nist_purge_entire_disk"
          /\ \E r \in {"Ok", "Err"} :
               call' = [call EXCEPT !.result = r, !.path = "file_level"]
    /\ UNCHANGED appVars

\* one pass of the loop (sanitization.rs 560-575, 207-231): it completes, or
\* its error ends the call
SanitizerPass ==
    /\ call.op \in SanitizerOps /\ call.result = "running"
    /\ Len(call.done) < Len(call.patterns)
    /\ \/ call' = [call EXCEPT !.done = Append(@, call.patterns[Len(call.done) + 1])]
       \/ call' = [call EXCEPT !.result = "Err"]
    /\ UNCHANGED appVars

\* the loop ends (sanitization.rs 577-579); nist_purge_entire_disk verifies,
\* and on false adds one Random pass that is not verified again
\* (sanitization.rs 233-253); it then writes its compliance report and
\* returns Ok, or returns the error of the report file (sanitization.rs
\* 255-261, 1028-1075)
SanitizerReturn ==
    /\ call.op \in SanitizerOps /\ call.result = "running"
    /\ Len(call.done) = Len(call.patterns)
    /\ IF call.op = "nist_purge_entire_disk"
       THEN IF call.verify = "none"
            THEN \/ call' = [call EXCEPT !.verify = "true", !.result = "Ok",
                                         !.report = "written"]
                 \/ call' = [call EXCEPT !.verify = "true", !.result = "Err",
                                         !.report = "failed"]
                 \/ call' = [call EXCEPT !.verify = "false",
                                         !.patterns = Append(@, Pattern("Random"))]
                 \/ call' = [call EXCEPT !.verify = "err", !.result = "Err"]
            ELSE \/ call' = [call EXCEPT !.result = "Ok", !.report = "written"]
                 \/ call' = [call EXCEPT !.result = "Err", !.report = "failed"]
       ELSE call' = [call EXCEPT !.result = "Ok"]
    /\ UNCHANGED appVars

NextSanitizer ==
    CallSanitizer \/ SanitizerOpenFails \/ SanitizerPass \/ SanitizerReturn

SpecSanitizer == InitLibrary /\ [][NextSanitizer]_vars

SanitizerDone ==
    call.op \in SanitizerOps /\ call.result = "Ok" /\ call.path = "device"

\* C8: the number of passes run is fixed by the tag: 3 for Purge, 7 for
\* Gutmann/enhanced, 1 for Clear/NistClear, in DataSanitizer and in the
\* total_passes and passes_completed tables of the job driver alike
C8_PassCountByTag ==
    SanitizerDone =>
        /\ call.op \in {"purge", "nist_purge_entire_disk"} => Len(call.done) = 3
        /\ call.op = "enhanced_purge" =>
               /\ Len(call.done) = 7
               /\ TotalPassesTable("Gutmann") = 7
               /\ PassesCompletedTable("Gutmann") = 7
        /\ call.op = "clear" =>
               /\ Len(call.done) = 1
               /\ TotalPassesTable("NistClear") = 1
               /\ PassesCompletedTable("NistClear") = 1

PurgeCall ==
    \/ call.op \in {"purge", "nist_purge_entire_disk"}
    \/ call.op = "sanitize_device_with_size" /\ call.method = "Purge"

\* C9: where a method is mapped to patterns, Clear runs the single pattern
\* Random and Purge runs Random, a fixed byte, Random, in this order
C9_MethodPatterns ==
    SanitizerDone =>
        /\ (call.op = "sanitize_device_with_size" /\ call.method = "Clear") =>
               call.done = <<Pattern("Random")>>
        /\ PurgeCall =>
               /\ Len(call.done) >= 3
               /\ call.done[1].tag = "Random"
               /\ call.done[2].tag \in {"Custom", "Ones", "Zeros"}
               /\ call.done[3].tag = "Random"

-----------------------------------------------------------------------------
(* DataSanitizer::clear on a file followed by verify_sanitization,          *)
(* src/src/sanitization.rs 84-91, 524-639, 784-822. The file is a sequence  *)
(* of bytes; the sanitizer is DataSanitizer::new(), whose buffer is as long *)
(* as the interval after which a Random buffer is refilled, so that Random  *)
(* is refilled before every write                                           *)

\* longest file
MaxFileLen == 3

\* the default sample of verify_sanitization (1 MiB in the source), in the
\* bytes of the model, shorter than the longest file
SampleLen == 2

\* sanitization.rs 597, in the bytes of the model: a file takes several writes
aligned_buffer_size == 2

FileContents == UNION {[1..n -> Bytes] : n \in 0..MaxFileLen}

\* sample_size: None or Some(n)
NoSample == MaxFileLen + 2

SampleSizes == (0..(MaxFileLen + 1)) \cup {NoSample}

\* the mutant of write_all: the last byte of the slice is not written
write_all_short(file, offset, data) ==
    [i \in 1..Len(file) |->
        IF i > offset /\ i < offset + Len(data) THEN data[i - offset] ELSE file[i]]

\* buffered_writer.write_all(&buffer[..write_size]) at position offset of a
\* file that is at least offset + write_size long (sanitization.rs 612)
write_all(file, offset, data) ==
    [i \in 1..Len(file) |->
        IF i > offset /\ i <= offset + Len(data) THEN data[i - offset] ELSE file[i]]

\* sanitization.rs 784-822: reads check_size bytes from the start of the
\* file; read_exact fails when the file is shorter
verify_sanitization(file, expected_pattern, sample_size) ==
    LET device_size == Len(file)
        check_size == IF sample_size = NoSample
                      THEN Min(device_size, SampleLen) ELSE sample_size
        buffer == SubSeq(file, 1, check_size)
        all(b) == \A i \in 1..check_size : buffer[i] = b
    IN  IF check_size > device_size THEN "Err"
        ELSE CASE expected_pattern.tag = "Random" ->
                      IF ~all(0) /\ ~all(255) THEN "true" ELSE "false"
               [] expected_pattern.tag = "Zeros" ->
                      IF all(0) THEN "true" ELSE "false"
               [] expected_pattern.tag = "Ones" ->
                      IF all(255) THEN "true" ELSE "false"
               [] expected_pattern.tag = "Custom" ->
                      IF all(expected_pattern.byte) THEN "true" ELSE "false"
               [] expected_pattern.tag = "DoD5220" ->
                      IF \A i \in 0..(check_size - 1) :
                            buffer[i + 1] = IF i % 2 = 0 THEN 85 ELSE 170
                      THEN "true" ELSE "false"

\* clear -> sanitize_device -> sanitize_device_with_size up to the pass
\* (sanitization.rs 84-91, 524-558): the size is read and the file opened,
\* or one of the two fails
CallClear ==
    /\ call = NoCall
    /\ \E file \in FileContents : \E pattern \in SanitizationPattern :
         \E r \in {"running", "Err"} :
            call' = [op |-> "clear", pattern |-> pattern, file |-> file,
                     device_size |-> Len(file), bytes_written |-> 0,
                     result |-> r, expected |-> pattern,
                     sample_size |-> NoSample, verification |-> "none"]
    /\ UNCHANGED appVars

\* one turn of the loop of sanitize_device_sequential (sanitization.rs
\* 603-632): the write succeeds, or its error ends the call
SequentialWrite ==
    /\ call.op = "clear" /\ call.result = "running"
    /\ call.bytes_written < call.device_size
    /\ LET remaining == call.device_size - call.bytes_written
           write_size == Min(aligned_buffer_size, remaining)
       IN  \/ \E rng \in [1..aligned_buffer_size -> Bytes] :
                LET buffer == generate_pattern_buffer(call.pattern,
                                                      aligned_buffer_size, rng)
                IN  call' = [call EXCEPT
                        !.file = write_all(@, call.bytes_written,
                                           SubSeq(buffer, 1, write_size)),
                        !.bytes_written = @ + write_size]
           \/ call' = [call EXCEPT !.result = "Err"]
    /\ UNCHANGED appVars

\* flush and sync_all after the loop (sanitization.rs 635-638)
SequentialSync ==
    /\ call.op = "clear" /\ call.result = "running"
    /\ call.bytes_written = call.device_size
    /\ \E r \in {"Ok", "Err"} : call' = [call EXCEPT !.result = r]
    /\ UNCHANGED appVars

\* verify_sanitization is called on the file after the clear returned
CallVerifySanitization ==
    /\ call.op = "clear" /\ call.result \in {"Ok", "Err"}
    /\ call.verification = "none"
    /\ \E expected \in SanitizationPattern : \E sample \in SampleSizes :
         call' = [call EXCEPT
             !.expected = expected, !.sample_size = sample,
             !.verification = verify_sanitization(call.file, expected, sample)]
    /\ UNCHANGED appVars

NextRoundTrip ==
    CallClear \/ SequentialWrite \/ SequentialSync \/ CallVerifySanitization

SpecRoundTrip == InitLibrary /\ [][NextRoundTrip]_vars

\* the clear returned Ok and the file was verified with the default sample
VerifiedAfterOk ==
    /\ call.op = "clear" /\ call.result = "Ok"
    /\ call.verification # "none" /\ call.sample_size = NoSample

\* C11: after clear(path, Zeros) returned Ok, verify_sanitization(path,
\* Zeros, None) returns true, whatever the size and the prior content of the
\* file; after a successful overwrite of a non-empty file with Ones,
\* verify_sanitization with the expected pattern Zeros returns false
C11_VerificationRoundTrip ==
    (VerifiedAfterOk /\ call.expected.tag = "Zeros") =>
        /\ call.pattern.tag = "Zeros" => call.verification = "true"
        /\ (call.pattern.tag = "Ones" /\ call.device_size > 0) =>
               call.verification = "false"

\* a file longer than the sample and than one buffer, with prior content
\* other than zeros, verified true after Zeros
C11_Witness ==
    /\ VerifiedAfterOk
    /\ call.pattern.tag = "Zeros" /\ call.expected.tag = "Zeros"
    /\ call.device_size = MaxFileLen
    /\ call.verification = "true"

-----------------------------------------------------------------------------
(* Direct calls of the device erasers: analyze_device of the three erasers, *)
(* erase_device and the public methods of SdCardEraser and UsbEraser, and   *)
(* NvmeEraser::nvme_deallocate (src/src/devices/{nvme,sdcard,usb}/mod.rs)   *)

EraserKinds == {"NVMe", "SDCard", "USBDrive"}

\* nvme/mod.rs 424-432: nothing is asked of the device
detect_nvme_capabilities ==
    [supports_secure_erase |-> TRUE, supports_crypto_erase |-> TRUE,
     supports_deallocate |-> TRUE, queries |-> <<>>]

\* sdcard/mod.rs 422-429
detect_sd_capabilities == [supports_native_erase |-> TRUE, queries |-> <<>>]

\* usb/mod.rs 414-421
detect_usb_capabilities ==
    [supports_secure_erase |-> FALSE, supports_trim |-> FALSE, queries |-> <<>>]

\* the commands analyze_device sent to the device to identify its
\* capabilities (nvme/mod.rs 438-439, sdcard/mod.rs 436, usb/mod.rs 428)
analysis_queries(kind) ==
    CASE kind = "NVMe"     -> detect_nvme_capabilities.queries
      [] kind = "SDCard"   -> detect_sd_capabilities.queries
      [] kind = "USBDrive" -> detect_usb_capabilities.queries

\* the DeviceInfo of analyze_device when the path opens (nvme/mod.rs
\* 435-461, sdcard/mod.rs 433-459, usb/mod.rs 425-451)
analyze_device(kind, size) ==
    CASE kind = "NVMe" ->
            [device_type |-> "NVMe", size_bytes |-> size, sector_size |-> 4096,
             supports_trim |-> detect_nvme_capabilities.supports_deallocate,
             supports_secure_erase |-> detect_nvme_capabilities.supports_secure_erase,
             supports_enhanced_secure_erase |->
                 detect_nvme_capabilities.supports_secure_erase,
             supports_crypto_erase |-> detect_nvme_capabilities.supports_crypto_erase,
             is_removable |-> FALSE]
      [] kind = "SDCard" ->
            [device_type |-> "SDCard", size_bytes |-> size, sector_size |-> 512,
             supports_trim |-> FALSE,
             supports_secure_erase |-> detect_sd_capabilities.supports_native_erase,
             supports_enhanced_secure_erase |-> FALSE,
             supports_crypto_erase |-> FALSE,
             is_removable |-> TRUE]
      [] kind = "USBDrive" ->
            [device_type |-> "USBDrive", size_bytes |-> size, sector_size |-> 512,
             supports_trim |-> detect_usb_capabilities.supports_trim,
             supports_secure_erase |-> detect_usb_capabilities.supports_secure_erase,
             supports_enhanced_secure_erase |-> FALSE,
             supports_crypto_erase |-> FALSE,
             is_removable |-> TRUE]

\* metadata.len() of the opened path, in bytes
AnalyzedSizes == {0, 512, 8192}

CallAnalyzeDevice ==
    /\ \E kind \in EraserKinds : \E size \in AnalyzedSizes :
         \/ call' = [op |-> "analyze_device", kind |-> kind, result |-> "Ok",
                     queries |-> analysis_queries(kind),
                     info |-> analyze_device(kind, size)]
         \/ call' = [op |-> "analyze_device", kind |-> kind, result |-> "Err",
                     queries |-> analysis_queries(kind), info |-> <<>>]
    /\ UNCHANGED appVars

\* C12: analyze_device never reports supports_crypto_erase or
\* supports_secure_erase for a device whose capabilities it did not detect:
\* when no detection was performed both flags are false
C12_ConservativeDefaults ==
    (call.op = "analyze_device" /\ call.result = "Ok" /\ call.queries = <<>>) =>
        /\ ~call.info.supports_crypto_erase
        /\ ~call.info.supports_secure_erase

\* the DeviceInfo fields nvme_deallocate reads
DeallocateInfos ==
    [size_bytes : AnalyzedSizes, sector_size : {0, 512, 4096},
     supports_trim : BOOLEAN]

\* the build decides whether integer overflow panics or wraps
Builds == {"debug", "release"}

\* execute_deallocate_command, nvme/mod.rs 337-350: the message computes
\* start_block + num_blocks - 1 in u64 and the function returns Unsupported
execute_deallocate_command(start_block, num_blocks, build) ==
    IF start_block + num_blocks = 0 /\ build = "debug"
    THEN "panic" ELSE "Unsupported"

\* nvme_deallocate, nvme/mod.rs 202-248: the result of the call
nvme_deallocate(device_info, build) ==
    IF ~device_info.supports_trim THEN "Unsupported"
    ELSE IF device_info.sector_size = 0 THEN "panic"
    ELSE LET total_blocks == device_info.size_bytes \div device_info.sector_size
         IN execute_deallocate_command(0, total_blocks, build)

CallNvmeDeallocate ==
    /\ \E info \in DeallocateInfos : \E build \in Builds :
         call' = [op |-> "nvme_deallocate", info |-> info, build |-> build,
                  result |-> nvme_deallocate(info, build)]
    /\ UNCHANGED appVars

\* C17: nvme_deallocate returns an error, and never Ok, for every
\* device_info: any size_bytes and sector_size, either value of supports_trim
C17_DeallocateReturnsError ==
    call.op = "nvme_deallocate" => call.result \in {"Unsupported", "Err"}

\* the steps of a method: an overwrite pass over the device, the external
\* format command, or a function that returns its error unconditionally
Overwrite(pattern) == [kind |-> "overwrite", pattern |-> pattern]

FormatCommand == [kind |-> "format", pattern |-> "none"]

Unimplemented(name) == [kind |-> "unimplemented", pattern |-> name]

\* the mutant of SdMethodSteps: filesystem_secure_delete fills the free
\* space as the unused helpers of sdcard/mod.rs 258-330 would
SdMethodSteps_filling(method) ==
    CASE method = "single_pass_random" -> <<Overwrite("Random")>>
      [] method = "single_pass_zeros" -> <<Overwrite("Zeros")>>
      [] method = "overwrite_ones" -> <<Overwrite("Ones")>>
      [] method = "quick_format" -> <<FormatCommand>>
      [] method = "conservative_two_pass" -> <<Overwrite("Zeros"), Overwrite("Random")>>
      [] method = "sd_erase_command" -> <<Overwrite("Zeros")>>
      [] method = "filesystem_secure_delete" -> <<Overwrite("Random")>>

\* the methods of SdCardEraser (sdcard/mod.rs 51-238); sd_erase_command
\* always takes its fallback to single_pass_zeros, because
\* execute_sd_erase_command returns Err (sdcard/mod.rs 95-127, 240-250)
SdMethodSteps(method) ==
    CASE method = "single_pass_random" -> <<Overwrite("Random")>>
      [] method = "single_pass_zeros" -> <<Overwrite("Zeros")>>
      [] method = "overwrite_ones" -> <<Overwrite("Ones")>>
      [] method = "quick_format" -> <<FormatCommand>>
      [] method = "conservative_two_pass" -> <<Overwrite("Zeros"), Overwrite("Random")>>
      [] method = "sd_erase_command" -> <<Overwrite("Zeros")>>
      [] method = "filesystem_secure_delete" ->
            <<Unimplemented("filesystem_secure_delete")>>

\* UsbEraser::erase_device, usb/mod.rs 457-482: the method of an algorithm
UsbEraseMethod(algorithm) ==
    CASE algorithm = "Random"         -> "single_pass_random"
      [] algorithm = "Zeros"          -> "single_pass_zeros"
      [] algorithm = "QuickFormat"    -> "quick_format_overwrite"
      [] algorithm = "ThreePass"      -> "conservative_three_pass"
      [] algorithm = "FileSystemWipe" -> "filesystem_secure_delete"
      [] algorithm = "NistClear"      -> "single_pass_zeros"
      [] algorithm = "Ones"           -> "overwrite_ones"
      [] OTHER                        -> "single_pass_random"

\* the algorithms erase_device of UsbEraser has an arm for
UsbExplicitAlgorithms ==
    {"Random", "Zeros", "QuickFormat", "ThreePass", "FileSystemWipe",
     "NistClear", "Ones"}

\* the mutant of UsbMethodSteps: conservative_three_pass does not look at
\* conservative_approach
UsbMethodSteps_unguarded(method, conservative_approach) ==
    CASE method = "single_pass_random" -> <<Overwrite("Random")>>
      [] method = "single_pass_zeros" -> <<Overwrite("Zeros")>>
      [] method = "overwrite_ones" -> <<Overwrite("Ones")>>
      [] method = "quick_format_overwrite" -> <<FormatCommand, Overwrite("Random")>>
      [] method = "conservative_three_pass" ->
            <<Overwrite("Zeros"), Overwrite("Ones"), Overwrite("Random")>>
      [] method = "filesystem_secure_delete" ->
            <<Unimplemented("delete_all_files")>>

\* the methods of UsbEraser (usb/mod.rs 47-208); filesystem_secure_delete
\* ends at delete_all_files, which returns Err (usb/mod.rs 242-251)
UsbMethodSteps(method, conservative_approach) ==
    CASE method = "single_pass_random" -> <<Overwrite("Random")>>
      [] method = "single_pass_zeros" -> <<Overwrite("Zeros")>>
      [] method = "overwrite_ones" -> <<Overwrite("Ones")>>
      [] method = "quick_format_overwrite" -> <<FormatCommand, Overwrite("Random")>>
      [] method = "conservative_three_pass" ->
            IF conservative_approach
            THEN <<Overwrite("Random")>>
            ELSE <<Overwrite("Zeros"), Overwrite("Ones"), Overwrite("Random")>>
      [] method = "filesystem_secure_delete" ->
            <<Unimplemented("delete_all_files")>>

\* the steps of the method a call runs
EraserMethodSteps(kind, method, conservative_approach) ==
    IF kind = "SDCard" THEN SdMethodSteps(method)
    ELSE UsbMethodSteps(method, conservative_approach)

EraserCall(op, kind, conservative_approach, algorithm, method) ==
    [op |-> op, kind |-> kind, conservative_approach |-> conservative_approach,
     algorithm |-> algorithm, method |-> method,
     steps |-> EraserMethodSteps(kind, method, conservative_approach),
     done |-> 0, writes |-> <<>>, result |-> "running", verified |-> "none"]

\* erase_device of SdCardEraser (sdcard/mod.rs 465-495) and of UsbEraser
\* (usb/mod.rs 457-482); conservative_approach is true for UsbEraser::new
\* and with_buffer_size, false for aggressive_mode (usb/mod.rs 22-45)
CallEraseDevice ==
    /\ \/ \E algorithm \in WipingAlgorithm : \E sse \in BOOLEAN :
            call' = EraserCall("erase_device", "SDCard", TRUE, algorithm,
                        EraseMethod("SDCard", algorithm,
                                    [supports_secure_erase |-> sse]))
       \/ \E algorithm \in WipingAlgorithm : \E conservative \in BOOLEAN :
            call' = EraserCall("erase_device", "USBDrive", conservative,
                               algorithm, UsbEraseMethod(algorithm))
    /\ UNCHANGED appVars

\* a public method called directly
CallEraserMethod ==
    /\ \/ call' = EraserCall("method", "SDCard", TRUE, "none",
                             "filesystem_secure_delete")
       \/ \E conservative \in BOOLEAN :
            call' = EraserCall("method", "USBDrive", conservative, "none",
                               "conservative_three_pass")
    /\ UNCHANGED appVars

EraserOps == {"erase_device", "method"}

\* one step of the method: an overwrite pass (sdcard/mod.rs 346-402,
\* usb/mod.rs 338-394) runs to its end, fails after it wrote, or fails at
\* the open; the format command (sdcard/mod.rs 146-191, usb/mod.rs 210-239)
\* succeeds or fails; an unimplemented function returns Unsupported
EraserStep ==
    /\ call.op \in EraserOps /\ call.result = "running"
    /\ call.done < Len(call.steps)
    /\ LET step == call.steps[call.done + 1]
       IN CASE step.kind = "overwrite" ->
                  \/ call' = [call EXCEPT !.done = @ + 1,
                                          !.writes = Append(@, step.pattern)]
                  \/ call' = [call EXCEPT !.result = "Err",
                                          !.writes = Append(@, step.pattern)]
                  \/ call' = [call EXCEPT !.result = "Err"]
            [] step.kind = "format" ->
                  \/ call' = [call EXCEPT !.done = @ + 1,
                                          !.writes = Append(@, "format")]
                  \/ call' = [call EXCEPT !.result = "Err"]
            [] step.kind = "unimplemented" ->
                  call' = [call EXCEPT !.result = "Unsupported"]
    /\ UNCHANGED appVars

\* the method returns Ok after its last step
EraserReturn ==
    /\ call.op \in EraserOps /\ call.result = "running"
    /\ call.done = Len(call.steps)
    /\ call' = [call EXCEPT !.result = "Ok"]
    /\ UNCHANGED appVars

\* what the device holds after the writes of the call: the pattern of the
\* last overwrite pass; what a format leaves behind is not known
EraserContent(writes) ==
    IF writes = <<>> THEN "untouched"
    ELSE IF writes[Len(writes)] = "format" THEN "unknown"
    ELSE writes[Len(writes)]

\* verify_erasure of the eraser that ran erase_device (sdcard/mod.rs
\* 497-530, usb/mod.rs 484-514); verify_after_wipe is true in every
\* constructor (sdcard/mod.rs 26, 35, 44, usb/mod.rs 25, 33, 41)
EraserVerify ==
    /\ call.op = "erase_device" /\ call.result = "Ok"
    /\ call.verified = "none" /\ call.writes # <<>>
    /\ \E v \in VerifyOutcomes(EraserContent(call.writes)) :
         call' = [call EXCEPT !.verified = v]
    /\ UNCHANGED appVars

\* AtaInterface::security_erase, ata_commands.rs 437-453: no command is
\* issued and the error is returned for both values of enhanced
security_erase(enhanced) ==
    [result |-> "Unsupported", commands |-> <<>>, erased |-> FALSE]

\* what the outside answers to secure_erase_ssd: CreateFileW on windows,
\* and on unix the three hdparm commands, each of which fails to start,
\* exits with failure or exits with success; identify prints the Security
\* section or does not
SsdEnvironments ==
    [platform : {"windows", "unix", "other"}, open : {"Ok", "Err"},
     identify : {"spawn_err", "no_security", "security"},
     set_pass : {"spawn_err", "failure", "success"},
     erase : {"spawn_err", "failure", "success"}]

\* ssd_sanitization::secure_erase_ssd, sanitization.rs 1090-1161: the
\* commands it issued, whether the drive was erased, and its result
secure_erase_ssd(env) ==
    CASE env.platform = "windows" ->
            [result |-> env.open, commands |-> <<>>, erased |-> FALSE]
      [] env.platform = "unix" ->
            IF env.identify # "security"
            THEN [result |-> "Err", commands |-> <<"hdparm -I">>, erased |-> FALSE]
            ELSE IF env.set_pass = "spawn_err"
            THEN [result |-> "Err",
                  commands |-> <<"hdparm -I", "security-set-pass">>,
                  erased |-> FALSE]
            ELSE [result |-> IF env.erase = "spawn_err" THEN "Err" ELSE "Ok",
                  commands |-> <<"hdparm -I", "security-set-pass", "security-erase">>,
                  erased |-> env.erase = "success"]
      [] env.platform = "other" ->
            [result |-> "Err", commands |-> <<>>, erased |-> FALSE]

CallSecurityErase ==
    /\ \E enhanced \in BOOLEAN :
         LET r == security_erase(enhanced)
         IN call' = [op |-> "security_erase", enhanced |-> enhanced,
                     result |-> r.result, commands |-> r.commands,
                     erased |-> r.erased]
    /\ UNCHANGED appVars

CallSecureEraseSsd ==
    /\ \E env \in SsdEnvironments :
         LET r == secure_erase_ssd(env)
         IN call' = [op |-> "secure_erase_ssd", env |-> env,
                     result |-> r.result, commands |-> r.commands,
                     erased |-> r.erased]
    /\ UNCHANGED appVars

NextEraser ==
    \/ CallAnalyzeDevice
    \/ CallNvmeDeallocate
    \/ CallEraseDevice
    \/ CallEraserMethod
    \/ CallSecurityErase
    \/ CallSecureEraseSsd
    \/ EraserStep
    \/ EraserReturn
    \/ EraserVerify

SpecEraser == InitLibrary /\ [][NextEraser]_vars

SdFilesystemSecureDelete ==
    /\ call.op \in EraserOps /\ call.kind = "SDCard"
    /\ \/ call.method = "filesystem_secure_delete"
       \/ call.op = "erase_device" /\ call.algorithm = "FileSystemWipe"

\* C18: SdCardEraser::filesystem_secure_delete, and erase_device called with
\* FileSystemWipe, returns an Unsupported error for every device, never Ok,
\* and writes nothing to the device
C18_SdFilesystemWipeUnsupported ==
    SdFilesystemSecureDelete =>
        /\ call.result \in {"running", "Unsupported"}
        /\ call.writes = <<>>
        /\ call.done = 0

C18_Witness ==
    /\ SdFilesystemSecureDelete
    /\ call.op = "erase_device"
    /\ call.result = "Unsupported"

\* the overwrite passes a call has started on the device
OverwritePassCount ==
    Cardinality({i \in 1..Len(call.writes) : call.writes[i] # "format"})

UsbEraseDeviceCall == call.op = "erase_device" /\ call.kind = "USBDrive"

\* C19: with conservative_approach = true no algorithm passed to
\* UsbEraser::erase_device performs more than one overwrite pass, and an
\* algorithm without an arm of its own runs the single-pass random
\* overwrite; three overwrite passes occur only for ThreePass on an eraser
\* built with aggressive_mode
C19_UsbSinglePassDefault ==
    UsbEraseDeviceCall =>
        /\ call.conservative_approach => OverwritePassCount <= 1
        /\ call.algorithm \notin UsbExplicitAlgorithms =>
               /\ call.method = "single_pass_random"
               /\ call.result = "Ok" => call.writes = <<"Random">>
        /\ OverwritePassCount > 1 =>
               call.algorithm = "ThreePass" /\ ~call.conservative_approach

\* ThreePass on a conservative eraser ran one Random pass, and nothing else
C19_Witness ==
    /\ UsbEraseDeviceCall
    /\ call.conservative_approach /\ call.algorithm = "ThreePass"
    /\ call.result = "Ok" /\ call.writes = <<"Random">>

\* C16: every native ATA secure-erase entry point fails closed: it returns
\* Ok only when the erase command was issued and its completion confirmed,
\* and an error otherwise
C16_SecureEraseFailsClosed ==
    (call.op \in {"security_erase", "secure_erase_ssd"} /\ call.result = "Ok") =>
        /\ \E i \in 1..Len(call.commands) : call.commands[i] = "security-erase"
        /\ call.erased

-----------------------------------------------------------------------------
(* The overwrite loops: sanitize_device_sequential under                    *)
(* sanitize_device_with_size (sanitization.rs 539-639), overwrite_entire_   *)
(* device under nist_purge_entire_disk (sanitization.rs 207-231, 825-912)   *)
(* and NvmeEraser::single_pass_overwrite (nvme/mod.rs 251-270, 353-404).    *)
(* Lengths are counted in blocks of 4 MiB; a cell of the device records the *)
(* pattern written to the block and, for Random, which filling of the       *)
(* buffer and which block of it                                             *)

\* 16 * 1024 * 1024 bytes (sanitization.rs 608), in blocks
RegenInterval == 4

\* target sizes, below CHUNK_SIZE, so that sanitize_device_with_size takes
\* the sequential branch (sanitization.rs 569-575)
OverwriteSizes == {0, 6, 10}

\* the buffers of a DataSanitizer whose constructor did not raise
\* buffer_size to OPTIMAL_BUFFER_SIZE
SanitizerBuffers_unclamped == {0, 4, 5, 8}

\* aligned_buffer_size for DataSanitizer::new (16 MiB), with_buffer_size of
\* 20 MiB and high_performance on 8 cores (32 MiB), sanitization.rs 53-82
SanitizerBuffers == {4, 5, 8}

\* the loops with the length of a write (chunk), the length of the random
\* pattern the chunk is expanded from, whether the loop refills a Random
\* buffer (sanitization.rs 607-610), and the patterns of the passes
OverwriteEntries ==
    {[op |-> "sanitize_device_with_size", chunk |-> b, pattern_len |-> b,
      refills |-> TRUE, patterns |-> ps] :
        b \in SanitizerBuffers, ps \in {<<"Random">>, <<"Zeros", "Random">>}}
    \cup {[op |-> "overwrite_entire_device", chunk |-> 16, pattern_len |-> 16,
           refills |-> FALSE, patterns |-> purge_passes],
          [op |-> "single_pass_overwrite", chunk |-> 2, pattern_len |-> 1,
           refills |-> FALSE, patterns |-> <<"Random">>]}

OverwriteOps == {e.op : e \in OverwriteEntries}

\* the buffer of a pass is built (sanitization.rs 598, 838; nvme/mod.rs 266)
StartPass(c, pass) ==
    [c EXCEPT !.pass = pass, !.bytes_written = 0, !.sync = "none",
              !.writes = <<>>,
              !.gen = IF c.patterns[pass] = "Random" THEN @ + 1 ELSE @]

CallOverwrite ==
    /\ call = NoCall
    /\ \E e \in OverwriteEntries : \E size \in OverwriteSizes :
         call' = StartPass(
                    [op |-> e.op, chunk |-> e.chunk, pattern_len |-> e.pattern_len,
                     refills |-> e.refills, patterns |-> e.patterns,
                     device_size |-> size, pass |-> 0, bytes_written |-> 0,
                     gen |-> 0, sync |-> "none", completed |-> 0,
                     writes |-> <<>>,
                     device |-> [i \in 1..size |-> <<"data", 0, 0>>],
                     result |-> "running"], 1)
    /\ UNCHANGED appVars

\* sanitization.rs 607-610: fill_random before a write of a Random pass
\* when bytes_written is a multiple of 16 MiB
refills_now(c) ==
    /\ c.refills
    /\ c.patterns[c.pass] = "Random"
    /\ c.bytes_written % RegenInterval = 0

\* one write of the loop (sanitization.rs 603-614, 849-856; nvme/mod.rs
\* 373-378): block k of the chunk holds block (k - 1) % pattern_len of the
\* pattern
write_chunk(c) ==
    LET gen == IF refills_now(c) THEN c.gen + 1 ELSE c.gen
        write_size == Min(c.chunk, c.device_size - c.bytes_written)
        pattern == c.patterns[c.pass]
    IN [c EXCEPT
          !.gen = gen,
          !.bytes_written = @ + write_size,
          !.writes = Append(@, [offset |-> c.bytes_written, len |-> write_size]),
          !.device = [i \in 1..c.device_size |->
              IF i > c.bytes_written /\ i <= c.bytes_written + write_size
              THEN IF pattern = "Random"
                   THEN <<"Random", gen, (i - c.bytes_written - 1) % c.pattern_len>>
                   ELSE <<pattern, 0, 0>>
              ELSE c.device[i]]]

OverwriteWrite ==
    /\ call.op \in OverwriteOps /\ call.result = "running"
    /\ call.bytes_written < call.device_size
    /\ \/ call' = write_chunk(call)
       \/ call' = [call EXCEPT !.result = "Err"]
    /\ UNCHANGED appVars

\* the mutant of after_sync: the result of the final sync is dropped
after_sync_dropped(c, outcome) == [c EXCEPT !.sync = outcome]

\* flush and sync_all with `?` after the loop (sanitization.rs 634-638,
\* 904-905; nvme/mod.rs 402)
after_sync(c, outcome) ==
    [c EXCEPT !.sync = outcome,
              !.result = IF outcome = "Err" THEN "Err" ELSE @]

OverwriteSync ==
    /\ call.op \in OverwriteOps /\ call.result = "running"
    /\ call.bytes_written = call.device_size /\ call.sync = "none"
    /\ \E outcome \in {"Ok", "Err"} : call' = after_sync(call, outcome)
    /\ UNCHANGED appVars

\* the pass returns Ok and the loop over the patterns goes on
\* (sanitization.rs 560-579, 207-231)
OverwritePassEnd ==
    /\ call.op \in OverwriteOps /\ call.result = "running"
    /\ call.sync # "none"
    /\ LET ended == [call EXCEPT !.completed = @ + 1]
       IN IF call.pass < Len(call.patterns)
          THEN call' = StartPass(ended, call.pass + 1)
          ELSE call' = [ended EXCEPT !.result = "Ok"]
    /\ UNCHANGED appVars

NextOverwrite ==
    CallOverwrite \/ OverwriteWrite \/ OverwriteSync \/ OverwritePassEnd

SpecOverwrite == InitLibrary /\ [][NextOverwrite]_vars

BlockDevicePass ==
    call.op \in {"sanitize_device_with_size", "overwrite_entire_device"}

\* C14: in the block-device path a pass returns Ok, and the next pass
\* starts, only after its final sync returned success; a pass whose final
\* sync failed returns Err
C14_PassCompleteAfterSync ==
    [][(BlockDevicePass /\ call'.op = call.op) =>
          /\ (call'.completed > call.completed \/ call'.pass > call.pass) =>
                 (call.sync = "Ok" /\ call.bytes_written = call.device_size)
          /\ call'.sync = "Err" => call'.result = "Err"]_vars

\* the second pass started after the first was synced
C14_Witness ==
    /\ BlockDevicePass
    /\ call.completed = 1 /\ call.pass = 2 /\ call.bytes_written > 0

\* the blocks of the device that hold the data of filling g of the buffer
BlocksOfFilling(g) ==
    {i \in 1..call.device_size :
        call.device[i][1] = "Random" /\ call.device[i][2] = g}

\* C15: during a Random pass the buffer is refilled at least once per
\* 16 MiB written, so that no filling of the buffer is written to more than
\* 16 MiB of the device, in the sequential path for every buffer size, in
\* overwrite_entire_device and in the erasers' overwrite loops
C15_RandomRefilledEvery16MiB ==
    call.op \in OverwriteOps =>
        \A g \in 1..call.gen : Cardinality(BlocksOfFilling(g)) <= RegenInterval

-----------------------------------------------------------------------------
(* The filesystem fallback: DataSanitizer::overwrite_all_files and          *)
(* overwrite_single_file, src/src/sanitization.rs 323-437, over the files   *)
(* of one directory in the order read_dir yields them                       *)

\* most files in the directory
MaxFiles == 2

\* largest value of passes
MaxPasses == 3

\* a file as found: its length (0 for an empty file) and what the passes
\* have done to it
FoundFile(size) ==
    [size |-> size, overwrites |-> 0, attempts |-> 0, deleted |-> FALSE]

Directories == UNION {[1..n -> {FoundFile(0), FoundFile(1)}] : n \in 1..MaxFiles}

CallOverwriteAllFiles ==
    /\ call = NoCall
    /\ \E passes \in 0..MaxPasses : \E files \in Directories :
         call' = [op |-> "overwrite_all_files", passes |-> passes,
                  files |-> files, index |-> 1, result |-> "running"]
    /\ UNCHANGED appVars

\* overwrite_single_file, sanitization.rs 400-437: Ok after the content was
\* overwritten and flushed, Ok without a write when the file is empty or
\* its metadata cannot be read, Err when the open, a write or the flush fails
overwrite_single_file(file) ==
    IF file.size = 0
    THEN {[result |-> "Ok", overwritten |-> TRUE]}
    ELSE {[result |-> "Ok", overwritten |-> TRUE],
          [result |-> "Ok", overwritten |-> FALSE],
          [result |-> "Err", overwritten |-> FALSE]}

\* one turn of `for pass in 1..=passes` (sanitization.rs 363-383): an Err
\* of overwrite_single_file is printed and the loop continues
FilePass ==
    /\ call.op = "overwrite_all_files" /\ call.result = "running"
    /\ call.index <= Len(call.files)
    /\ call.files[call.index].attempts < call.passes
    /\ \E r \in overwrite_single_file(call.files[call.index]) :
         call' = [call EXCEPT
            !.files[call.index].attempts = @ + 1,
            !.files[call.index].overwrites =
                IF r.overwritten THEN @ + 1 ELSE @]
    /\ UNCHANGED appVars

\* remove_file after the passes (sanitization.rs 385-389); its error is
\* printed and the walk goes on with the next entry
FileDelete ==
    /\ call.op = "overwrite_all_files" /\ call.result = "running"
    /\ call.index <= Len(call.files)
    /\ call.files[call.index].attempts = call.passes
    /\ \E removed \in BOOLEAN :
         call' = [call EXCEPT !.files[call.index].deleted = removed,
                              !.index = @ + 1]
    /\ UNCHANGED appVars

\* the entry cannot be read or is neither a file nor a directory
\* (sanitization.rs 342-350, 360): it is passed over
FileSkipped ==
    /\ call.op = "overwrite_all_files" /\ call.result = "running"
    /\ call.index <= Len(call.files)
    /\ call.files[call.index].attempts = 0
    /\ call' = [call EXCEPT !.index = @ + 1]
    /\ UNCHANGED appVars

\* sanitization.rs 391-393
OverwriteAllFilesReturn ==
    /\ call.op = "overwrite_all_files" /\ call.result = "running"
    /\ call.index > Len(call.files)
    /\ call' = [call EXCEPT !.result = "Ok"]
    /\ UNCHANGED appVars

NextFiles ==
    \/ CallOverwriteAllFiles
    \/ FilePass
    \/ FileDelete
    \/ FileSkipped
    \/ OverwriteAllFilesReturn

SpecFiles == InitLibrary /\ [][NextFiles]_vars

\* C20: in overwrite_all_files every file that is deleted has first had its
\* content overwritten in place successfully `passes` times
C20_OverwrittenBeforeDeleted ==
    call.op = "overwrite_all_files" =>
        \A i \in 1..Len(call.files) :
            call.files[i].deleted => call.files[i].overwrites >= call.passes

-----------------------------------------------------------------------------
(* Two drives erased by one request: start_real_sanitization spawns one     *)
(* worker per selected drive and hands each a clone of the one              *)
(* Arc<Mutex<WipingProgress>> of the application (main.rs 303-360)          *)

\* most workers of a run with several drives
MaxConcurrent == 2

\* D: is an SD card and E: stands on the hardware of SystemHardware; the
\* request is NvmeCryptoErase, which E: runs as its native command and D:
\* replaces by its first recommended algorithm
InitConcurrent ==
    /\ Init
    /\ selected_algorithm = "NvmeCryptoErase"
    /\ devices["D:"].devtype = "SDCard"

NextConcurrent ==
    \/ ToggleConfirm
    \/ \E d \in Drives : ToggleSelect(d)
    \/ handle_erase_request_within(MaxConcurrent)
    \/ UpdateTick
    \/ \E t \in 1..Len(threads) : WorkerAnalyze(t)
    \/ \E t \in 1..Len(threads) : WorkerEraseDevice(t)
    \/ \E t \in 1..Len(threads) : WorkerNative(t)
    \/ \E t \in 1..Len(threads) : WorkerWrite(t)
    \/ \E t \in 1..Len(threads) : WorkerVerify(t)
    \/ \E t \in 1..Len(threads) : WorkerNistOpen(t)
    \/ \E t \in 1..Len(threads) : WorkerNistWrite(t)
    \/ \E t \in 1..Len(threads) : WorkerNistPassEnd(t)
    \/ \E t \in 1..Len(threads) : WorkerNistVerify(t)
    \/ \E t \in 1..Len(threads) : WorkerNistReport(t)
    \/ \E t \in 1..Len(threads) : WorkerFileLevel(t)

SpecConcurrent == InitConcurrent /\ [][NextConcurrent]_vars

\* the worker has initialised the progress record it was given, which is
\* wipe_progress for every worker (main.rs 383-397)
WroteProgress(t) == threads[t].analyzed

\* C13: each concurrently running erase job updates its own WipingProgress
\* instance: no two workers of different drives write the same progress
\* record
C13_OwnProgressRecord ==
    \A t, u \in 1..Len(threads) :
        (WroteProgress(t) /\ WroteProgress(u)) =>
            threads[t].drive = threads[u].drive

-----------------------------------------------------------------------------
(* Verification of a Random overwrite: verify_sanitization against          *)
(* contains_suspicious_patterns, src/src/sanitization.rs 784-822, 972-1025, *)
(* on the files of SpecRoundTrip                                            *)

\* the longest run of one value a buffer may hold (128 in the source,
\* sanitization.rs 1024), in the bytes of the model
RunLimit == 2

\* the byte signatures of sanitization.rs 981-982, b"\x00\x00\x00\x00" and
\* b"\xFF\xFF\xFF\xFF", in the bytes of the model; the text signatures
\* (sanitization.rs 976-980) are made of bytes the model does not draw
suspicious_signatures == {<<0, 0>>, <<255, 255>>}

\* u8::is_ascii, and is_ascii_graphic or b' ', on the bytes of the model
is_ascii(b) == b < 128

is_printable(b) == b >= 32 /\ b < 127

\* the longest run of one value in the buffer (sanitization.rs 1010-1021)
max_run(buffer) ==
    IF Len(buffer) = 0 THEN 1
    ELSE LET Runs == {n \in 1..Len(buffer) :
                        \E i \in 1..(Len(buffer) - n + 1) :
                            \A j \in i..(i + n - 1) : buffer[j] = buffer[i]}
         IN CHOOSE n \in Runs : \A m \in Runs : m <= n

\* contains_suspicious_patterns, sanitization.rs 972-1025
contains_suspicious_patterns(buffer) ==
    LET ascii_chars == Cardinality({i \in 1..Len(buffer) : is_ascii(buffer[i])})
        printable_chars ==
            Cardinality({i \in 1..Len(buffer) :
                            is_ascii(buffer[i]) /\ is_printable(buffer[i])})
        looks_like_text ==
            /\ Len(buffer) > 0
            /\ ascii_chars * 10 > 8 * Len(buffer)
            /\ printable_chars * 2 > Len(buffer)
        has_signature ==
            \E sig \in suspicious_signatures :
                \E i \in 1..(Len(buffer) - Len(sig) + 1) :
                    SubSeq(buffer, i, i + Len(sig) - 1) = sig
    IN looks_like_text \/ has_signature \/ max_run(buffer) > RunLimit

\* the bytes verify_sanitization read
VerifiedSample ==
    SubSeq(call.file, 1,
           IF call.sample_size = NoSample
           THEN Min(Len(call.file), SampleLen) ELSE call.sample_size)

\* all-zero, all-0xFF, or suspicious
DegenerateSample ==
    \/ \A i \in 1..Len(VerifiedSample) : VerifiedSample[i] = 0
    \/ \A i \in 1..Len(VerifiedSample) : VerifiedSample[i] = 255
    \/ contains_suspicious_patterns(VerifiedSample)

\* C21: verify_sanitization with the expected pattern Random returns true
\* only if the sample has no degenerate content (not all-zero, not all-0xFF,
\* no long run of one value, no signature, printable-ASCII ratio within the
\* bound), and false otherwise
C21_RandomVerificationRejectsDegenerate ==
    (call.op = "clear" /\ call.verification \in {"true", "false"}
        /\ call.expected.tag = "Random") =>
        (call.verification = "true" <=> ~DegenerateSample)

-----------------------------------------------------------------------------
\* C22: after erase_device succeeds, verify_erasure of the same eraser
\* judges the sample against the pattern family of the algorithm that ran:
\* after a successful Random or Ones overwrite it returns true
C22_VerifyMatchesAlgorithm ==
    (call.op = "erase_device" /\ call.result = "Ok"
        /\ call.verified \in {"true", "false"}
        /\ EraserContent(call.writes) \in {"Random", "Ones"}) =>
        call.verified = "true"

-----------------------------------------------------------------------------
\* C23: for every SanitizationInfo, determine_compliance yields
\* hipaa_compliant = gdpr_compliant = success, nist_compliant = success and
\* (method contains "NIST" or algorithm contains "Clear" or "Purge"),
\* dod_compliant = success and (method contains "DoD" or passes_completed
\* >= 3); so a run that did not succeed has all four flags false and the
\* security level "Incomplete"
C23_ComplianceFollowsSuccess ==
    call.op = "generate_certificate" =>
        LET si == call.certificate.sanitization_info
            ci == call.certificate.compliance_info
        IN /\ ci.hipaa_compliant = si.success
           /\ ci.gdpr_compliant = si.success
           /\ ci.nist_compliant =
                (si.success /\ (\/ StrContains(si.method, "NIST")
                                \/ StrContains(si.algorithm, "Clear")
                                \/ StrContains(si.algorithm, "Purge")))
           /\ ci.dod_compliant =
                (si.success /\ (\/ StrContains(si.method, "DoD")
                                \/ si.passes_completed >= 3))
           /\ ~si.success =>
                /\ ~ci.hipaa_compliant /\ ~ci.gdpr_compliant
                /\ ~ci.nist_compliant /\ ~ci.dod_compliant
                /\ ci.security_level = "Incomplete"

\* a failed run under a NIST method with 35 passes got no flag
C23_Witness ==
    /\ call.op = "generate_certificate"
    /\ ~call.certificate.sanitization_info.success
    /\ StrContains(call.certificate.sanitization_info.method, "NIST")
    /\ call.certificate.sanitization_info.passes_completed >= 3
    /\ call.certificate.compliance_info.security_level = "Incomplete"

-----------------------------------------------------------------------------
(* The chunked-parallel path of a pass: sanitize_device_parallel,           *)
(* src/src/sanitization.rs 642-741, followed by the sequential pass it      *)
(* calls. Lengths are counted in buffers of OPTIMAL_BUFFER_SIZE (16 MiB).   *)

\* CHUNK_SIZE (64 MiB, sanitization.rs 43) in buffers of 16 MiB
CHUNK_SIZE == 4

\* the device sizes of a parallel pass, all above CHUNK_SIZE
\* (sanitization.rs 567)
ParallelSizes == {5, 8, 9}

\* sanitization.rs 654-655
chunks_count(device_size) == (device_size + CHUNK_SIZE - 1) \div CHUNK_SIZE

actual_chunk_size(device_size) == device_size \div chunks_count(device_size)

\* the chunk of one spawned thread, sanitization.rs 675-677
chunk_size(device_size, chunk_idx) ==
    Min((chunk_idx + 1) * actual_chunk_size(device_size), device_size)
        - chunk_idx * actual_chunk_size(device_size)

\* sanitize_device_parallel up to the spawning of its threads
\* (sanitization.rs 651-708): nothing is written yet
CallSanitizeParallel ==
    /\ call = NoCall
    /\ \E device_size \in ParallelSizes :
         call' = [op |-> "sanitize_device_parallel",
                  device_size |-> device_size,
                  workers |-> [i \in 0..(chunks_count(device_size) - 1) |->
                                 [bytes_processed |-> 0, sent |-> FALSE]],
                  progress_counter |-> 0, channel |-> <<>>,
                  phase |-> "parallel", bytes_written |-> 0,
                  progress |-> <<>>, result |-> "running"]
    /\ UNCHANGED appVars

ParallelCall == call.op = "sanitize_device_parallel"

\* one turn of a thread's loop (sanitization.rs 690-702): it adds the size
\* of a write to its own count and to the shared counter, and writes nothing
ParallelWorkerStep ==
    /\ ParallelCall /\ call.phase = "parallel"
    /\ \E i \in DOMAIN call.workers :
         LET w == call.workers[i]
             remaining == chunk_size(call.device_size, i) - w.bytes_processed
             write_size == Min(1, remaining)
         IN /\ remaining > 0
            /\ call' = [call EXCEPT
                  !.workers[i].bytes_processed = @ + write_size,
                  !.progress_counter = @ + write_size]
    /\ UNCHANGED appVars

\* tx.send(chunk_idx), sanitization.rs 704
ParallelWorkerSend ==
    /\ ParallelCall /\ call.phase = "parallel"
    /\ \E i \in DOMAIN call.workers :
         /\ call.workers[i].bytes_processed = chunk_size(call.device_size, i)
         /\ ~call.workers[i].sent
         /\ call' = [call EXCEPT !.workers[i].sent = TRUE,
                                 !.channel = Append(@, i)]
    /\ UNCHANGED appVars

\* one turn of the monitoring loop (sanitization.rs 711-729): a snapshot
\* with the value of the shared counter; written is what the device has
\* received in this pass at that moment
ParallelMonitor ==
    /\ ParallelCall /\ call.phase = "parallel"
    /\ call.channel # <<>>
    /\ call' = [call EXCEPT
          !.channel = Tail(@),
          !.progress = Append(@, [bytes_processed |-> call.progress_counter,
                                  written |-> call.bytes_written,
                                  current_operation |-> "Writing pattern in parallel"])]
    /\ UNCHANGED appVars

\* the channel is closed and drained and the threads are joined
\* (sanitization.rs 731-737): the sequential pass starts at offset 0
ParallelJoin ==
    /\ ParallelCall /\ call.phase = "parallel"
    /\ call.channel = <<>>
    /\ \A i \in DOMAIN call.workers : call.workers[i].sent
    /\ call' = [call EXCEPT !.phase = "sequential"]
    /\ UNCHANGED appVars

\* one turn of the loop of sanitize_device_sequential (sanitization.rs
\* 600-633) with the default buffer of 16 MiB: a write, which succeeds or
\* fails, and a snapshot, since one buffer is more than device_size / 100
ParallelSequentialWrite ==
    /\ ParallelCall /\ call.phase = "sequential" /\ call.result = "running"
    /\ call.bytes_written < call.device_size
    /\ LET write_size == Min(1, call.device_size - call.bytes_written)
       IN \/ call' = [call EXCEPT
                !.bytes_written = @ + write_size,
                !.progress = Append(@, [bytes_processed |-> call.bytes_written + write_size,
                                        written |-> call.bytes_written + write_size,
                                        current_operation |-> "Writing pattern"])]
          \/ call' = [call EXCEPT !.result = "Err"]
    /\ UNCHANGED appVars

\* flush and sync_all, sanitization.rs 636-638, and the return of
\* sanitize_device_parallel, sanitization.rs 738-740
ParallelReturn ==
    /\ ParallelCall /\ call.phase = "sequential" /\ call.result = "running"
    /\ call.bytes_written = call.device_size
    /\ \E r \in {"Ok", "Err"} : call' = [call EXCEPT !.result = r]
    /\ UNCHANGED appVars

NextParallel ==
    \/ CallSanitizeParallel
    \/ ParallelWorkerStep
    \/ ParallelWorkerSend
    \/ ParallelMonitor
    \/ ParallelJoin
    \/ ParallelSequentialWrite
    \/ ParallelReturn

SpecParallel == InitLibrary /\ [][NextParallel]_vars

\* C24: every progress snapshot emitted by sanitize_device_parallel during
\* a pass has bytes_processed no greater than the number of bytes written
\* to the device in that pass so far, and bytes_processed never decreases
\* within the pass
C24_ParallelProgressAccurate ==
    ParallelCall =>
        /\ \A i \in 1..Len(call.progress) :
              call.progress[i].bytes_processed <= call.progress[i].written
        /\ \A i \in 1..(Len(call.progress) - 1) :
              call.progress[i].bytes_processed <= call.progress[i + 1].bytes_processed

-----------------------------------------------------------------------------
\* C25: nist_purge_entire_disk returns Ok and writes its compliance report,
\* which states that post-sanitization verification completed, only when
\* the final contents of the device have passed verify_disk_sanitization: a
\* verification result of false is never followed by Ok without a later
\* verification returning true
C25_OkOnlyAfterVerification ==
    (call.op = "nist_purge_entire_disk" /\ call.path = "device"
        /\ (call.result = "Ok" \/ call.report = "written")) =>
        call.verify = "true"

-----------------------------------------------------------------------------
(* NvmeEraser::nvme_write_zeroes, src/src/devices/nvme/mod.rs 137-199,      *)
(* and execute_write_zeroes_command, 313-334                                *)

\* the blocks of one Write Zeroes command (65536 in the source,
\* nvme/mod.rs 153), in the blocks of the model
blocks_per_command == 2

\* DeviceInfo.size_bytes and DeviceInfo.sector_size of the call: both are
\* public fields of the argument
WriteZeroesSizes == 0..8

WriteZeroesSectors == 0..3

\* nvme/mod.rs 144-155: the progress record is set up and total_blocks is
\* computed; the division panics when sector_size is 0
CallNvmeWriteZeroes ==
    /\ call = NoCall
    /\ \E size_bytes \in WriteZeroesSizes : \E sector_size \in WriteZeroesSectors :
         call' = [op |-> "nvme_write_zeroes", size_bytes |-> size_bytes,
                  sector_size |-> sector_size,
                  total_blocks |-> IF sector_size = 0 THEN 0
                                   ELSE size_bytes \div sector_size,
                  blocks_processed |-> 0, commands |-> <<>>, zeroed |-> {},
                  result |-> IF sector_size = 0 THEN "panic" ELSE "running"]
    /\ UNCHANGED appVars

WriteZeroesCall == call.op = "nvme_write_zeroes"

\* the byte offsets execute_write_zeroes_command writes (nvme/mod.rs
\* 325-330)
command_offsets(sector_size, start_block, num_blocks) ==
    (start_block * sector_size) ..
        (start_block * sector_size + num_blocks * sector_size - 1)

\* one turn of the loop (nvme/mod.rs 158-193): the command for the next
\* range succeeds, or its error ends the call
WriteZeroesCommand ==
    /\ WriteZeroesCall /\ call.result = "running"
    /\ call.blocks_processed < call.total_blocks
    /\ LET blocks_remaining == call.total_blocks - call.blocks_processed
           blocks_to_process == Min(blocks_per_command, blocks_remaining)
           command == [start_block |-> call.blocks_processed,
                       num_blocks |-> blocks_to_process]
       IN \/ call' = [call EXCEPT
                !.commands = Append(@, command),
                !.zeroed = @ \cup command_offsets(call.sector_size,
                                    call.blocks_processed, blocks_to_process),
                !.blocks_processed = @ + blocks_to_process]
          \/ call' = [call EXCEPT !.commands = Append(@, command),
                                  !.result = "Err"]
    /\ UNCHANGED appVars

\* nvme/mod.rs 196-198
WriteZeroesReturn ==
    /\ WriteZeroesCall /\ call.result = "running"
    /\ call.blocks_processed >= call.total_blocks
    /\ call' = [call EXCEPT !.result = "Ok"]
    /\ UNCHANGED appVars

NextWriteZeroes ==
    CallNvmeWriteZeroes \/ WriteZeroesCommand \/ WriteZeroesReturn

SpecWriteZeroes == InitLibrary /\ [][NextWriteZeroes]_vars

\* C26: nvme_write_zeroes issues Write Zeroes commands of at most 65536
\* blocks each over contiguous, non-overlapping, ascending block ranges,
\* and when it returns Ok every byte offset in [0, size_bytes) has been
\* zeroed, for every size_bytes and sector_size; it does not panic
C26_WriteZeroesCoversDevice ==
    WriteZeroesCall =>
        /\ call.result # "panic"
        /\ \A i \in 1..Len(call.commands) :
              /\ call.commands[i].num_blocks <= blocks_per_command
              /\ call.commands[i].start_block =
                    (IF i = 1 THEN 0
                     ELSE call.commands[i - 1].start_block
                            + call.commands[i - 1].num_blocks)
        /\ call.result = "Ok" =>
              \A offset \in 0..(call.size_bytes - 1) : offset \in call.zeroed

-----------------------------------------------------------------------------
(* Termination of the sequential pass, src/src/sanitization.rs 583-639:     *)
(* the loop is straight-line code of one thread, so each of its steps       *)
(* that is enabled is eventually taken                                      *)

SpecOverwriteFair ==
    /\ SpecOverwrite
    /\ WF_vars(OverwriteWrite)
    /\ WF_vars(OverwriteSync)
    /\ WF_vars(OverwritePassEnd)

SequentialCall == call.op = "sanitize_device_with_size"

\* the writes of the current pass are non-empty, at most the aligned buffer
\* each, and contiguous from offset 0
SequentialWritesContiguous ==
    /\ \A i \in 1..Len(call.writes) :
          /\ call.writes[i].len > 0
          /\ call.writes[i].len <= call.chunk
          /\ call.writes[i].offset =
                (IF i = 1 THEN 0
                 ELSE call.writes[i - 1].offset + call.writes[i - 1].len)
    /\ call.bytes_written =
          (IF call.writes = <<>> THEN 0
           ELSE call.writes[Len(call.writes)].offset
                  + call.writes[Len(call.writes)].len)
    /\ call.bytes_written <= call.device_size

\* the pass that returned Ok left its pattern in every block of the device
SequentialPassCovers ==
    (call.sync = "Ok" \/ call.result = "Ok") =>
        /\ call.bytes_written = call.device_size
        /\ \A i \in 1..call.device_size :
              call.device[i][1] = call.patterns[call.pass]

\* C27: sanitize_device_sequential terminates for every device_size and,
\* when it returns Ok, has issued writes totalling exactly device_size
\* bytes, contiguous from offset 0, each write at most the sector-aligned
\* buffer size, so that every byte in [0, device_size) holds the pass
\* pattern
C27_SequentialTerminatesAndCovers ==
    /\ [](SequentialCall => SequentialWritesContiguous /\ SequentialPassCovers)
    /\ SequentialCall ~> (SequentialCall /\ call.result \in {"Ok", "Err"})

\* a pass over a device that is not a multiple of the buffer returned Ok
\* after a short last write
C27_Witness ==
    /\ SequentialCall /\ call.result = "Ok"
    /\ call.device_size = 10 /\ call.chunk = 4
    /\ Len(call.writes) = 3 /\ call.writes[3].len = 2

-----------------------------------------------------------------------------
\* UsbEraser::get_recommended_algorithms, usb/mod.rs 516-534
usb_get_recommended_algorithms(conservative_approach) ==
    IF conservative_approach
    THEN <<"Random", "Zeros", "FileSystemWipe", "QuickFormat", "NistClear">>
    ELSE <<"ThreePass", "Random", "FileSystemWipe", "QuickFormat", "NistClear">>

\* the algorithm of the erase_device call is in the list the same eraser
\* recommends, so that the job driver passes it on unchanged (main.rs
\* 374-379)
RecommendedAlgorithmRuns ==
    /\ call.op = "erase_device"
    /\ SeqContains(IF call.kind = "USBDrive"
                   THEN usb_get_recommended_algorithms(call.conservative_approach)
                   ELSE get_recommended_algorithms(call.kind),
                   call.algorithm)

\* C28: each algorithm an eraser returns from get_recommended_algorithms is
\* one its erase_device can complete on a writable device: none of them
\* returns an Unsupported error whatever the device
C28_RecommendedIsSupported ==
    RecommendedAlgorithmRuns =>
        /\ call.result # "Unsupported"
        /\ \A i \in 1..Len(call.steps) : call.steps[i].kind # "unimplemented"

-----------------------------------------------------------------------------
(* DataSanitizer::verify_disk_sanitization, src/src/sanitization.rs         *)
(* 915-969, with the sample, the number of samples and the two tolerances   *)
(* scaled down in the same order: pass_limit < fail_limit < samples         *)

\* sanitization.rs 919: 1000 in the source
verification_samples == 4

\* sanitization.rs 920: 4096 in the source
sample_size == 2

\* sanitization.rs 941: 10 in the source
fail_limit == 2

\* sanitization.rs 968: 5 in the source
pass_limit == 1

\* device_file.metadata().len() as nist_purge_entire_disk passes it
\* (sanitization.rs 189-195, 235)
VerifyDiskSizes == 1..6

\* the values rng.gen::<u64>() takes
RngValues == 0..3

CallVerifyDiskSanitization ==
    /\ call = NoCall
    /\ \E device_size \in VerifyDiskSizes :
         call' = [op |-> "verify_disk_sanitization", device_size |-> device_size,
                  i |-> 0, suspicious_patterns |-> 0, positions |-> <<>>,
                  result |-> "running"]
    /\ UNCHANGED appVars

VerifyDiskCall == call.op = "verify_disk_sanitization"

\* one turn of the loop, sanitization.rs 929-956: the position is computed
\* (the remainder panics when the device holds no whole sample), the seek
\* succeeds or fails, and the sample is read and judged by
\* contains_suspicious_patterns, or the read fails
VerifyDiskSample ==
    /\ VerifyDiskCall /\ call.result = "running"
    /\ call.i < verification_samples
    /\ LET max_position == (call.device_size \div sample_size) * sample_size
           divisor == max_position \div sample_size
       IN IF divisor = 0
          THEN call' = [call EXCEPT !.result = "panic"]
          ELSE \E r \in RngValues :
                 LET position == (r % divisor) * sample_size
                     sampled == [call EXCEPT !.i = @ + 1,
                                             !.positions = Append(@, position)]
                 IN \/ call' = [call EXCEPT !.result = "Err"]
                    \/ call' = sampled
                    \/ call' =
                         IF call.suspicious_patterns + 1 > fail_limit
                         THEN [sampled EXCEPT !.suspicious_patterns = @ + 1,
                                              !.result = "false"]
                         ELSE [sampled EXCEPT !.suspicious_patterns = @ + 1]
                    \/ call' =
                         IF position < call.device_size - sample_size
                         THEN [call EXCEPT !.result = "Err",
                                           !.positions = Append(@, position)]
                         ELSE sampled
    /\ UNCHANGED appVars

\* sanitization.rs 964-968
VerifyDiskReturn ==
    /\ VerifyDiskCall /\ call.result = "running"
    /\ call.i = verification_samples
    /\ call' = [call EXCEPT !.result =
                  IF call.suspicious_patterns <= pass_limit THEN "true" ELSE "false"]
    /\ UNCHANGED appVars

NextVerifyDisk ==
    CallVerifyDiskSanitization \/ VerifyDiskSample \/ VerifyDiskReturn

SpecVerifyDisk == InitLibrary /\ [][NextVerifyDisk]_vars

\* C29: verify_disk_sanitization computes every sample offset as a multiple
\* of the sample size with offset + sample size <= device_size, completes
\* with Ok or Err without arithmetic fault for every device_size >= 1,
\* also below one sample, and its result is true exactly when at most 5
\* (here pass_limit) of the samples were suspicious
C29_VerifyDiskArithmetic ==
    VerifyDiskCall =>
        /\ call.result # "panic"
        /\ \A k \in 1..Len(call.positions) :
              /\ call.positions[k] % sample_size = 0
              /\ call.positions[k] + sample_size <= call.device_size
        /\ call.result \in {"true", "false"} =>
              (call.result = "true" <=> call.suspicious_patterns <= pass_limit)

-----------------------------------------------------------------------------
\* the request is refused: the confirmation box is unchecked, no drive is
\* selected, or the system drive is among the selected drives
EraseRequestRefused ==
    \/ ~confirm_erase
    \/ {d \in Drives : drives[d].selected} = {}
    \/ drives["C:"].selected

\* C30: a refused handle_erase_request starts no sanitization worker for
\* any drive and leaves sanitization_in_progress, current_sanitization_start
\* and every drive's progress unchanged; only last_error_message changes
C30_RefusedRequestChangesOnlyMessage ==
    [][(EraseRequestRefused /\ handle_erase_request) =>
          /\ threads' = threads
          /\ sanitization_in_progress' = sanitization_in_progress
          /\ current_sanitization_start' = current_sanitization_start
          /\ drives' = drives
          /\ wipe_progress' = wipe_progress
          /\ sanitization_progress' = sanitization_progress
          /\ certificates' = certificates
          /\ confirm_erase' = confirm_erase
          /\ last_error_message' \in {"confirm", "no_drives", "system_drive"}]_vars

\* the request was refused for the system drive, selected together with
\* another drive, and nothing was started
C30_Witness ==
    /\ confirm_erase
    /\ drives["C:"].selected /\ drives["D:"].selected
    /\ last_error_message = "system_drive"
    /\ threads = <<>>
    /\ ~sanitization_in_progress

=============================================================================
